---- MODULE Spec2Model ----
(***************************************************************************)
(* A model of the salon repeat-visit analyser: the data processing of      *)
(* modules/data_processor.py (cleansing, customer identification, new-     *)
(* customer extraction) and the repeat-pattern builder of                  *)
(* modules/repeat_analyzer.py.                                             *)
(*                                                                         *)
(* Text whose characters the code inspects (phone numbers, names, dates,   *)
(* flags, customer ids) is a sequence of one-character strings.  A         *)
(* non-ASCII character is written as the token of its code point           *)
(* ("U+3000" is the full-width space).  The status values are plain        *)
(* strings: "sumi" stands for the completed value and "cancel" for any     *)
(* other status.                                                           *)
(***************************************************************************)
EXTENDS Integers, Sequences, FiniteSets, TLC

VARIABLES
    files,          \* the CSV files uploaded: a sequence of files, each a sequence of raw rows
    disk,           \* per file, whether it can be opened and how its bytes decode
    table,          \* the DataFrame load_and_combine_csv_files returned
    columns,        \* the header of the export, then the columns of that DataFrame
    pc,             \* "start", "loaded", "load_failed", "analyzed", "analysis_failed"
    params,         \* the parameters of the last analyze_repeat_customers call
    new_customers,  \* the DataFrame get_new_customers returned in that call
    repeat_data,    \* the DataFrame _analyze_repeat_patterns returned in that call
    results,        \* what that call returned, or the exception it raised
    calls,          \* how many analyze_repeat_customers calls the table has been through
    web             \* the web application: its sessions, its two folders, its requests

vars ==
    <<files, disk, table, columns, pc, params, new_customers, repeat_data, results, calls,
      web>>

----------------------------------------------------------------------------
(* Text helpers *)

\* pandas' missing value (NaN / None) in a text column
NaN == <<"NaN">>

isna(v) == v = NaN

notna(v) == v # NaN

Digits == {"0", "1", "2", "3", "4", "5", "6", "7", "8", "9"}

\* str.isdigit on a non-empty text
isdigit(s) == Len(s) > 0 /\ \A i \in 1..Len(s) : s[i] \in Digits

DigitVal(c) ==
    CASE c = "0" -> 0 [] c = "1" -> 1 [] c = "2" -> 2 [] c = "3" -> 3 [] c = "4" -> 4
      [] c = "5" -> 5 [] c = "6" -> 6 [] c = "7" -> 7 [] c = "8" -> 8 [] c = "9" -> 9

RECURSIVE ToInt(_)
ToInt(s) == IF s = <<>> THEN 0 ELSE 10 * ToInt(SubSeq(s, 1, Len(s) - 1)) + DigitVal(s[Len(s)])

\* the characters Python's str.strip() and the regex class \s remove
Whitespace == {" ", "U+3000"}

RECURSIVE lstrip(_)
lstrip(s) == IF s # <<>> /\ Head(s) \in Whitespace THEN lstrip(Tail(s)) ELSE s

RECURSIVE rstrip(_)
rstrip(s) ==
    IF s # <<>> /\ s[Len(s)] \in Whitespace THEN rstrip(SubSeq(s, 1, Len(s) - 1)) ELSE s

strip(s) == rstrip(lstrip(s))

IsSpaceChar(c) == c \in Whitespace

\* re.sub(r'[\s　]+', '', s)
remove_spaces(s) == SelectSeq(s, LAMBDA c : ~IsSpaceChar(c))

LowerChar(c) ==
    CASE c = "T" -> "t" [] c = "R" -> "r" [] c = "U" -> "u" [] c = "E" -> "e"
      [] c = "F" -> "f" [] c = "A" -> "a" [] c = "L" -> "l" [] c = "S" -> "s"
      [] c = "Y" -> "y" [] c = "N" -> "n" [] c = "O" -> "o"
      [] OTHER -> c

\* str.lower()
lower(s) == [i \in 1..Len(s) |-> LowerChar(s[i])]

----------------------------------------------------------------------------
(* Dates: a parsed date is the number of days since 1999-12-31 *)

IsLeap(y) == (y % 4 = 0 /\ y % 100 # 0) \/ y % 400 = 0

DaysInMonth(y, m) ==
    CASE m \in {1, 3, 5, 7, 8, 10, 12} -> 31
      [] m \in {4, 6, 9, 11} -> 30
      [] OTHER -> IF IsLeap(y) THEN 29 ELSE 28

RECURSIVE DaysBeforeMonth(_, _)
DaysBeforeMonth(y, m) == IF m = 1 THEN 0 ELSE DaysBeforeMonth(y, m - 1) + DaysInMonth(y, m - 1)

RECURSIVE DaysBeforeYear(_)
DaysBeforeYear(y) ==
    IF y <= 2000 THEN 0 ELSE DaysBeforeYear(y - 1) + (IF IsLeap(y - 1) THEN 366 ELSE 365)

ValidYMD(y, m, d) == y >= 2000 /\ m \in 1..12 /\ d >= 1 /\ d <= DaysInMonth(y, m)

Ordinal(y, m, d) == DaysBeforeYear(y) + DaysBeforeMonth(y, m) + d

\* a datetime value is <<n>> (a day) or NaT
NaT == <<>>

\* datetime.strptime(s, '%Y%m%d') on an 8-digit text; NaT stands for the ValueError
strptime_Ymd(s) ==
    LET y == ToInt(SubSeq(s, 1, 4))
        m == ToInt(SubSeq(s, 5, 6))
        d == ToInt(SubSeq(s, 7, 8))
    IN  IF ValidYMD(y, m, d) THEN <<Ordinal(y, m, d)>> ELSE NaT

\* pd.to_datetime(s) on the text forms YYYY-MM-DD and YYYY/MM/DD; NaT stands for
\* the ValueError it raises on a text that denotes no date
to_datetime(s) ==
    IF /\ Len(s) = 10
       /\ s[5] \in {"-", "/"}
       /\ s[8] = s[5]
       /\ isdigit(SubSeq(s, 1, 4)) /\ isdigit(SubSeq(s, 6, 7)) /\ isdigit(SubSeq(s, 9, 10))
    THEN LET y == ToInt(SubSeq(s, 1, 4))
             m == ToInt(SubSeq(s, 6, 7))
             d == ToInt(SubSeq(s, 9, 10))
         IN  IF ValidYMD(y, m, d) THEN <<Ordinal(y, m, d)>> ELSE NaT
    ELSE NaT

\* _clean_visit_date.parse_date
parse_date(date_str) ==
    IF isna(date_str) THEN NaT
    ELSE LET s == strip(date_str)
         IN  IF Len(s) = 8 /\ isdigit(s) THEN strptime_Ymd(s) ELSE to_datetime(s)

----------------------------------------------------------------------------
(* Record normalisation: DataProcessor._clean_data and its steps.            *)
(* A raw row is a record of the CSV columns pandas read:                     *)
(*   date = 来店日, status = ステータス, phone = 電話番号, kana = フリガナ,    *)
(*   kanji = お名前, custnum = お客様番号, flag = このサロンに行くのは          *)
(*   初めてですか？, stylist = スタイリスト名, coupon = 予約時HotPepperBeauty   *)
(*   クーポン; rid names the physical line of the export and is read by no    *)
(*   step of the program.  A number pandas read as float64 is its repr        *)
(*   behind the token "<float>".                                              *)

isfloat(v) == v # <<>> /\ v[1] = "<float>"

\* f"{val:.0f}" of a float with an integral value: the digits before the point
format_0f(v) ==
    LET t == Tail(v)
        RECURSIVE upto_point(_)
        upto_point(u) ==
            IF u = <<>> \/ Head(u) = "." THEN <<>> ELSE <<Head(u)>> \o upto_point(Tail(u))
    IN  upto_point(t)

\* str(val)
str(v) == IF isfloat(v) THEN Tail(v) ELSE v

\* _clean_customer_info.clean_customer_number
clean_customer_number(val) ==
    IF isna(val) THEN NaN
    ELSE IF isfloat(val) THEN format_0f(val)
    ELSE strip(str(val))

\* _clean_phone_numbers.normalize_phone
normalize_phone(phone) ==
    IF isna(phone) THEN NaN
    ELSE LET phone_clean == SelectSeq(str(phone), LAMBDA c : c \in Digits)
         IN  IF phone_clean # <<>> THEN phone_clean ELSE NaN

\* name_clean.replace('ｱ', 'ア').replace('ｶ', 'カ')
ReplaceKana(c) ==
    CASE c = "U+FF71" -> "U+30A2"
      [] c = "U+FF76" -> "U+30AB"
      [] OTHER -> c

\* _clean_names.normalize_name
normalize_name(name) ==
    IF isna(name) THEN NaN
    ELSE LET spaceless == remove_spaces(strip(str(name)))
             name_clean == [i \in 1..Len(spaceless) |-> ReplaceKana(spaceless[i])]
         IN  IF name_clean # <<>> THEN name_clean ELSE NaN

\* Python truthiness of a text cell: None and '' are false
truthy(v) == notna(v) /\ v # <<>>

\* next((row.get(col) for col in candidates if row.get(col) and pd.notna(row.get(col))), None)
\* over the candidates <col>_normalized, <col>
first_present(normalized, raw) ==
    IF truthy(normalized) THEN normalized
    ELSE IF truthy(raw) THEN raw
    ELSE NaN

\* _clean_names.create_name_key
create_name_key(row) ==
    LET kana == first_present(row.kana_normalized, row.kana)
        kanji == first_present(row.kanji_normalized, row.kanji)
    IN  IF truthy(kana) /\ truthy(kanji) THEN strip(str(kana)) \o <<"#">> \o strip(str(kanji))
        ELSE IF truthy(kana) THEN strip(str(kana))
        ELSE IF truthy(kanji) THEN strip(str(kanji))
        ELSE NaN

true_values ==
    { <<"t", "r", "u", "e">>, <<"y", "e", "s">>, <<"U+306F", "U+3044">>,
      <<"U+306F", "U+3044", "U+3001", "U+521D", "U+3081", "U+3066", "U+3067", "U+3059">>,
      <<"1">> }

false_values ==
    { <<"f", "a", "l", "s", "e">>, <<"n", "o">>, <<"U+3044", "U+3044", "U+3048">>, <<"0">> }

\* _clean_boolean_flags.map_to_bool: "True", "False" or "None" (unknown)
map_to_bool(value) ==
    IF isna(value) THEN "None"
    ELSE LET str_value == strip(lower(str(value)))
         IN  IF str_value \in true_values THEN "True"
             ELSE IF str_value \in false_values THEN "False"
             ELSE "None"

\* pd.concat(all_dataframes, ignore_index=True): the rows of the files in file order,
\* each with its label in the RangeIndex of the combined frame
RECURSIVE concat(_)
concat(dfs) == IF dfs = <<>> THEN <<>> ELSE Head(dfs) \o concat(Tail(dfs))

with_index(rows) == [i \in 1..Len(rows) |-> [raw |-> rows[i], idx |-> i - 1]]

\* _clean_visit_date: rows whose date does not parse are dropped, the others keep
\* their index label and carry the parsed date
_clean_visit_date(df) ==
    LET valid == SelectSeq(df, LAMBDA r : parse_date(r.raw.date) # NaT)
    IN  [i \in 1..Len(valid) |-> [raw |-> valid[i].raw, idx |-> valid[i].idx,
                                  date |-> parse_date(valid[i].raw.date)[1]]]

\* the row-wise steps of _clean_data after the date step: _clean_boolean_flags,
\* _clean_customer_info, _clean_phone_numbers, _clean_names and the stylist-name
\* normalisation.  The status filter of _clean_data is commented out in the source.
clean_row(r) ==
    LET named == [kana |-> r.raw.kana, kanji |-> r.raw.kanji,
                  kana_normalized |-> normalize_name(r.raw.kana),
                  kanji_normalized |-> normalize_name(r.raw.kanji)]
    IN  [rid |-> r.raw.rid,
         idx |-> r.idx,
         date |-> r.date,
         status |-> r.raw.status,
         flag |-> map_to_bool(r.raw.flag),
         custnum_cleaned |-> clean_customer_number(r.raw.custnum),
         phone_raw |-> r.raw.phone,
         phone |-> normalize_phone(r.raw.phone),
         name_key |-> create_name_key(named),
         stylist |-> IF notna(r.raw.stylist) THEN remove_spaces(str(r.raw.stylist))
                     ELSE r.raw.stylist,
         coupon |-> r.raw.coupon]

_clean_data(df) ==
    LET dated == _clean_visit_date(df)
    IN  [i \in 1..Len(dated) |-> clean_row(dated[i])]

----------------------------------------------------------------------------
(* Identity resolution: DataProcessor._identify_customers *)

RECURSIVE IntToStr(_)
IntToStr(n) ==
    LET digit(k) == CHOOSE c \in Digits : DigitVal(c) = k
    IN  IF n < 10 THEN <<digit(n)>> ELSE IntToStr(n \div 10) \o <<digit(n % 10)>>

PHONE_ == <<"P", "H", "O", "N", "E", "_">>

NAME_ == <<"N", "A", "M", "E", "_">>

CUST_ == <<"C", "U", "S", "T", "_">>

UNKNOWN_ == <<"U", "N", "K", "N", "O", "W", "N", "_">>

\* mutant: the name-key is looked at before the phone
generate_customer_id_name_first(row) ==
    IF truthy(row.name_key) THEN NAME_ \o row.name_key
    ELSE IF truthy(row.phone) THEN PHONE_ \o row.phone
    ELSE IF truthy(row.custnum_cleaned) THEN CUST_ \o row.custnum_cleaned
    ELSE UNKNOWN_ \o IntToStr(row.idx)

\* mutant: the customer number is looked at before the name-key
generate_customer_id_cust_first(row) ==
    IF truthy(row.phone) THEN PHONE_ \o row.phone
    ELSE IF truthy(row.custnum_cleaned) THEN CUST_ \o row.custnum_cleaned
    ELSE IF truthy(row.name_key) THEN NAME_ \o row.name_key
    ELSE UNKNOWN_ \o IntToStr(row.idx)

\* mutant: the customer-number branch formats the row label, as the fallback does
generate_customer_id_cust_by_label(row) ==
    IF truthy(row.phone) THEN PHONE_ \o row.phone
    ELSE IF truthy(row.name_key) THEN NAME_ \o row.name_key
    ELSE IF truthy(row.custnum_cleaned) THEN CUST_ \o IntToStr(row.idx)
    ELSE UNKNOWN_ \o IntToStr(row.idx)

\* _identify_customers.generate_customer_id; row.name is the row's index label
generate_customer_id(row) ==
    IF truthy(row.phone) THEN PHONE_ \o row.phone
    ELSE IF truthy(row.name_key) THEN NAME_ \o row.name_key
    ELSE IF truthy(row.custnum_cleaned) THEN CUST_ \o row.custnum_cleaned
    ELSE UNKNOWN_ \o IntToStr(row.idx)

AddField(r, id) ==
    [rid |-> r.rid, idx |-> r.idx, date |-> r.date, status |-> r.status, flag |-> r.flag,
     custnum_cleaned |-> r.custnum_cleaned, phone_raw |-> r.phone_raw, phone |-> r.phone,
     name_key |-> r.name_key, stylist |-> r.stylist, coupon |-> r.coupon, id |-> id]

_identify_customers(df) == [i \in 1..Len(df) |-> AddField(df[i], generate_customer_id(df[i]))]

\* DataProcessor() is built without a default encoding
default_encoding == "None"

\* mutant: the sniffed encoding is tried before utf-8-sig, which comes after shift_jis
potential_encodings_sniffed_first(detected) ==
    <<detected, "cp932", "shift_jis", "utf-8-sig", "utf-8">>

\* the candidates of _load_single_csv for a file whose sniffed encoding is detected
potential_encodings(detected) == <<"utf-8-sig", detected, "cp932", "shift_jis", "utf-8">>

\* encodings_to_try of a DataProcessor configured with the default encoding default:
\* the default, then each candidate that is not None and not yet listed
encodings_to_try_of(default, detected) ==
    LET RECURSIVE extend(_, _)
        extend(tried, rest) ==
            IF rest = <<>> THEN tried
            ELSE IF Head(rest) # "None" /\ \A i \in 1..Len(tried) : tried[i] # Head(rest)
                 THEN extend(Append(tried, Head(rest)), Tail(rest))
                 ELSE extend(tried, Tail(rest))
    IN  extend(IF default # "None" THEN <<default>> ELSE <<>>,
               potential_encodings(detected))

\* encodings_to_try of the DataProcessor the application constructs
encodings_to_try(detected) == encodings_to_try_of(default_encoding, detected)

\* the encoding _load_single_csv reads a file with ("None" when every one failed):
\* the first of tries that decodes it
first_success(tries, decodes) ==
    IF \E i \in 1..Len(tries) : tries[i] \in decodes
    THEN tries[CHOOSE i \in 1..Len(tries) :
                  /\ tries[i] \in decodes
                  /\ \A j \in 1..(i - 1) : tries[j] \notin decodes]
    ELSE "None"

\* _load_single_csv on an existing file: <<df>>, the frame pd.read_csv parsed with the
\* first encoding that decodes the file, or <<>> (None) when every encoding failed
_load_single_csv(content, stat) ==
    LET tries == encodings_to_try(stat.detected)
    IN  IF first_success(tries, stat.decodes) # "None" THEN <<content>> ELSE <<>>

\* mutant: a file that cannot be read aborts the load of all files
all_dataframes_abort_on_failure(file_paths, stats) ==
    IF \E i \in 1..Len(file_paths) :
          ~stats[i].exists \/ _load_single_csv(file_paths[i], stats[i]) = <<>>
    THEN <<>>
    ELSE SelectSeq(file_paths, LAMBDA df : Len(df) > 0)

\* the frames load_and_combine_csv_files keeps: a file whose load raises (open() on a
\* file that cannot be opened) is skipped, and so is one that gave None or no row
all_dataframes(file_paths, stats) ==
    LET kept == SelectSeq([i \in 1..Len(file_paths) |-> i],
                          LAMBDA i : /\ stats[i].exists
                                     /\ _load_single_csv(file_paths[i], stats[i]) # <<>>
                                     /\ Len(file_paths[i]) > 0)
    IN  [k \in 1..Len(kept) |-> file_paths[kept[k]]]

\* load_and_combine_csv_files once a frame was read
combine_and_process(file_paths, stats) ==
    _identify_customers(_clean_data(with_index(concat(all_dataframes(file_paths, stats)))))

\* the columns the analysis reads: those of the export's header and the customer id
\* _identify_customers adds (the helper columns of the cleansing steps are left out)
processed_columns(header) == header \cup {"customer_id"}

----------------------------------------------------------------------------
(* Cohort extraction: DataProcessor.get_new_customers *)

\* the characters of the model's texts in code-point order (Python compares str so)
Alphabet ==
    << " ", "#", "-", ".", "/",
       "0", "1", "2", "3", "4", "5", "6", "7", "8", "9", "?",
       "A", "B", "C", "D", "E", "F", "G", "H", "I", "J", "K", "L", "M",
       "N", "O", "P", "Q", "R", "S", "T", "U", "V", "W", "X", "Y", "Z", "_",
       "a", "b", "c", "d", "e", "f", "g", "h", "i", "j", "k", "l", "m",
       "n", "o", "p", "q", "r", "s", "t", "u", "v", "w", "x", "y", "z",
       "U+3000", "U+3001", "U+3044", "U+3048", "U+3057", "U+3059", "U+3066", "U+3067",
       "U+306A", "U+306F", "U+3081", "U+30A2", "U+30AB", "U+4E0D", "U+521D", "U+660E",
       "U+FF71", "U+FF76" >>

Code(c) == CHOOSE i \in 1..Len(Alphabet) : Alphabet[i] = c

\* a < b on str
RECURSIVE str_less(_, _)
str_less(a, b) ==
    IF b = <<>> THEN FALSE
    ELSE IF a = <<>> THEN TRUE
    ELSE IF Head(a) = Head(b) THEN str_less(Tail(a), Tail(b))
    ELSE Code(Head(a)) < Code(Head(b))

\* the keys of a groupby on the customer id, in the order groupby yields them (sorted)
group_keys(df) ==
    LET ids == {df[i].id : i \in 1..Len(df)}
        RECURSIVE AsSeq(_)
        AsSeq(S) == IF S = {} THEN <<>> ELSE LET x == CHOOSE x \in S : TRUE
                                             IN  <<x>> \o AsSeq(S \ {x})
    IN  SortSeq(AsSeq(ids), str_less)

SetMin(S) == CHOOSE x \in S : \A y \in S : x <= y

\* df.groupby(customer id)[visit date].transform('min') at a row of customer id:
\* the earliest date among all rows of the frame that carry the id
global_first_visit(df, id) == SetMin({df[i].date : i \in {j \in 1..Len(df) : df[j].id = id}})

\* mutant: the flag-only policy, without the global-first-visit condition
is_new_customer_visit_flag_only(df, r, start_dt, end_dt) ==
    /\ (r.flag = "True" \/ r.flag = "None")
    /\ r.date >= start_dt /\ r.date <= end_dt

\* condition_A & condition_B & condition_C_period of get_new_customers
is_new_customer_visit(df, r, start_dt, end_dt) ==
    /\ r.date = global_first_visit(df, r.id)
    /\ (r.flag = "True" \/ r.flag = "None")
    /\ r.date >= start_dt /\ r.date <= end_dt

\* mutant: per id, the last row among those with the id's earliest date
first_row_of_last(visits, id) ==
    LET mine == SelectSeq(visits, LAMBDA r : r.id = id)
        d == SetMin({mine[i].date : i \in 1..Len(mine)})
    IN  mine[CHOOSE i \in 1..Len(mine) :
                /\ mine[i].date = d
                /\ \A j \in (i + 1)..Len(mine) : mine[j].date # d]

\* true_new_customer_visits.loc[groupby(customer id)[visit date].idxmin()]: per id, the
\* first row (in frame order) among those with the id's earliest date
first_row_of(visits, id) ==
    LET mine == SelectSeq(visits, LAMBDA r : r.id = id)
        d == SetMin({mine[i].date : i \in 1..Len(mine)})
    IN  mine[CHOOSE i \in 1..Len(mine) :
                /\ mine[i].date = d
                /\ \A j \in 1..(i - 1) : mine[j].date # d]

\* get_new_customers with parsed window dates
get_new_customers(df, start_dt, end_dt) ==
    LET true_new_customer_visits ==
            SelectSeq(df, LAMBDA r : is_new_customer_visit(df, r, start_dt, end_dt))
        keys == group_keys(true_new_customer_visits)
    IN  [k \in 1..Len(keys) |-> first_row_of(true_new_customer_visits, keys[k])]

----------------------------------------------------------------------------
(* Repeat patterns: RepeatAnalyzer._analyze_repeat_patterns *)

Sumi == "sumi"

\* mutant: the first visit itself counts (>= for >)
is_repeat_visit_from_first(v, first_visit, end_dt) ==
    /\ v.date >= first_visit
    /\ v.date <= end_dt
    /\ v.status = Sumi

\* mutant: the cutoff is not applied
is_repeat_visit_no_cutoff(v, first_visit, end_dt) ==
    /\ v.date > first_visit
    /\ v.status = Sumi

\* the filter that builds repeat_visits_df, at a visit v merged with the first-visit
\* date of its customer
is_repeat_visit(v, first_visit, end_dt) ==
    /\ v.date > first_visit
    /\ v.date <= end_dt
    /\ v.status = Sumi

\* merged_visits filtered: the visits of new customers that count as repeats, each
\* with the customer's first-visit date, in frame order
repeat_visits_df(all_data, nc_df, end_dt) ==
    LET nc_ids == {nc_df[i].id : i \in 1..Len(nc_df)}
        first_of(id) == (CHOOSE i \in 1..Len(nc_df) : nc_df[i].id = id)
        relevant_visits == SelectSeq(all_data, LAMBDA r : r.id \in nc_ids)
    IN  SelectSeq(relevant_visits,
                  LAMBDA v : is_repeat_visit(v, nc_df[first_of(v.id)].date, end_dt))

\* mutant: the visits are grouped without the sort by date
repeat_dates_of_unsorted(repeat_visits, id) ==
    LET mine == SelectSeq(repeat_visits, LAMBDA v : v.id = id)
    IN  [i \in 1..Len(mine) |-> mine[i].date]

\* sort_values([customer id, visit date]) then groupby(customer id) list(x): the
\* repeat dates of one customer in ascending order
repeat_dates_of(repeat_visits, id) ==
    LET mine == SelectSeq(repeat_visits, LAMBDA v : v.id = id)
        dates == [i \in 1..Len(mine) |-> mine[i].date]
    IN  SortSeq(dates, <)

RepeatRecord(nc, dates) ==
    [id |-> nc.id,
     first_visit |-> nc.date,
     stylist |-> nc.stylist,
     coupon |-> nc.coupon,
     repeat_count |-> Len(dates),
     repeat_dates |-> dates,
     days_to_first_repeat |-> IF dates = <<>> THEN NaT ELSE <<dates[1] - nc.date>>]

\* mutant: the repeat information is joined with how='inner', which drops the
\* customers that have no repeat
_analyze_repeat_patterns_inner_join(all_data, new_cust, end_dt) ==
    LET repeat_visits == repeat_visits_df(all_data, new_cust, end_dt)
        with_repeat == SelectSeq(new_cust,
                                 LAMBDA nc : \E i \in 1..Len(repeat_visits) :
                                                 repeat_visits[i].id = nc.id)
    IN  IF repeat_visits = <<>>
        THEN [i \in 1..Len(new_cust) |-> RepeatRecord(new_cust[i], <<>>)]
        ELSE [i \in 1..Len(with_repeat) |->
                 RepeatRecord(with_repeat[i],
                              repeat_dates_of(repeat_visits, with_repeat[i].id))]

\* _analyze_repeat_patterns with a parsed cutoff date.  days_to_first_repeat is <<n>>
\* or NaT (the NaN of the source)
_analyze_repeat_patterns(all_data, new_cust, end_dt) ==
    LET repeat_visits == repeat_visits_df(all_data, new_cust, end_dt)
    IN  IF repeat_visits = <<>>
        THEN [i \in 1..Len(new_cust) |-> RepeatRecord(new_cust[i], <<>>)]
        ELSE [i \in 1..Len(new_cust) |->
                 RepeatRecord(new_cust[i], repeat_dates_of(repeat_visits, new_cust[i].id))]

----------------------------------------------------------------------------
(* Analytic views: the _calculate_*, _analyze_* and _compare_* methods of    *)
(* RepeatAnalyzer, applied to the frame of RepeatRecords.  A float is the    *)
(* ratio <<num, den>> until it is rounded; round(x, 1) is <<t>>, the value   *)
(* in tenths, and round(x) is <<n>>; nan is the float NaN.  A dict is a      *)
(* function on its keys, {} the function on no key.                          *)

nan == <<>>

RECURSIVE GCD(_, _)
GCD(a, b) == IF b = 0 THEN a ELSE GCD(b, a % b)

\* the ratio n / d (n >= 0, d > 0) in lowest terms
Ratio(n, d) == <<n \div GCD(d, n), d \div GCD(d, n)>>

\* the quotient n / d rounded to an integer, a tie going to the even neighbour (the
\* ties the model's frames produce are dyadic, hence exact as floats)
round_half_even(n, d) ==
    LET q == n \div d
        r == n % d
    IN  IF 2 * r > d \/ (2 * r = d /\ q % 2 = 1) THEN q + 1 ELSE q

\* round(x, 1); round of nan is nan
round_1(x) == IF x = nan THEN nan ELSE <<round_half_even(10 * x[1], x[2])>>

\* round(x)
round_0(x) == round_half_even(x[1], x[2])

RECURSIVE SumSeq(_)
SumSeq(xs) == IF xs = <<>> THEN 0 ELSE Head(xs) + SumSeq(Tail(xs))

\* Series.mean(): nan on a series with no value
mean(xs) == IF xs = <<>> THEN nan ELSE Ratio(SumSeq(xs), Len(xs))

\* Series.median() of a series with at least one value
median(xs) ==
    LET sorted == SortSeq(xs, <)
        n == Len(xs)
    IN  IF n % 2 = 1 THEN Ratio(sorted[(n + 1) \div 2], 1)
        ELSE Ratio(sorted[n \div 2] + sorted[n \div 2 + 1], 2)

repeat_counts(df) == [i \in 1..Len(df) |-> df[i].repeat_count]

\* len(repeat_df[repeat_df[repeat count] >= n])
repeaters(df, n) == Len(SelectSeq(df, LAMBDA r : r.repeat_count >= n))

\* mutant: the quotient is taken the other way round
rate_of_inverted(part, whole) == IF part > 0 THEN Ratio(whole * 100, part) ELSE Ratio(0, 1)

\* (part / whole * 100) if whole > 0 else 0
rate_of(part, whole) == IF whole > 0 THEN Ratio(part * 100, whole) ELSE Ratio(0, 1)

_calculate_basic_stats(repeat_df, min_repeat_count) ==
    LET total_new_customers == Len(repeat_df)
        x_plus_repeaters == repeaters(repeat_df, min_repeat_count)
        first_repeaters == repeaters(repeat_df, 1)
        avg_repeat_all == mean(repeat_counts(repeat_df))
        avg_repeat_repeaters ==
            mean(repeat_counts(SelectSeq(repeat_df, LAMBDA r : r.repeat_count > 0)))
    IN  [total_new_customers |-> total_new_customers,
         x_plus_repeaters |-> x_plus_repeaters,
         x_plus_rate |-> round_1(rate_of(x_plus_repeaters, total_new_customers)),
         first_repeaters |-> first_repeaters,
         first_repeat_rate |-> round_1(rate_of(first_repeaters, total_new_customers)),
         avg_repeat_all |-> round_1(avg_repeat_all),
         avg_repeat_repeaters |->
             IF avg_repeat_repeaters # nan THEN round_1(avg_repeat_repeaters) ELSE <<0>>,
         min_repeat_count |-> min_repeat_count]

\* the stages of the funnel are numbered 1 (first visit) to 5 (fifth visit)
\* mutant: the stage of the n-th visit counts the customers with n repeat visits
_analyze_repeat_funnel_visits_as_repeats(repeat_df) ==
    LET total_customers == Len(repeat_df)
        stages == [i \in 1..5 |->
                      IF i = 1 THEN total_customers ELSE repeaters(repeat_df, i)]
        counts == {repeat_df[i].repeat_count : i \in 1..Len(repeat_df)}
        upto(c) == Cardinality({i \in 1..Len(repeat_df) : repeat_df[i].repeat_count <= c})
    IN  [stages |-> stages,
         stage_rates |-> [i \in 1..5 |-> round_1(rate_of(stages[i], total_customers))],
         continuation_rates |->
             [i \in 2..5 |-> IF stages[i - 1] > 0
                             THEN round_1(Ratio(stages[i] * 100, stages[i - 1]))
                             ELSE <<0>>],
         repeat_distribution |->
             [c \in counts |->
                 Cardinality({i \in 1..Len(repeat_df) : repeat_df[i].repeat_count = c})],
         cumulative_percentages |->
             [c \in counts |-> round_1(Ratio(upto(c) * 100, total_customers))]]

_analyze_repeat_funnel(repeat_df) ==
    LET total_customers == Len(repeat_df)
        stages == [i \in 1..5 |->
                      IF i = 1 THEN total_customers ELSE repeaters(repeat_df, i - 1)]
        counts == {repeat_df[i].repeat_count : i \in 1..Len(repeat_df)}
        upto(c) == Cardinality({i \in 1..Len(repeat_df) : repeat_df[i].repeat_count <= c})
    IN  [stages |-> stages,
         stage_rates |-> [i \in 1..5 |-> round_1(rate_of(stages[i], total_customers))],
         continuation_rates |->
             [i \in 2..5 |-> IF stages[i - 1] > 0
                             THEN round_1(Ratio(stages[i] * 100, stages[i - 1]))
                             ELSE <<0>>],
         repeat_distribution |->
             [c \in counts |->
                 Cardinality({i \in 1..Len(repeat_df) : repeat_df[i].repeat_count = c})],
         cumulative_percentages |->
             [c \in counts |-> round_1(Ratio(upto(c) * 100, total_customers))]]

\* the keys of a groupby on a text column, in the order groupby yields them (sorted)
sorted_keys(S) ==
    LET RECURSIVE AsSeq(_)
        AsSeq(T) == IF T = {} THEN <<>> ELSE LET x == CHOOSE x \in T : TRUE
                                             IN  <<x>> \o AsSeq(T \ {x})
    IN  SortSeq(AsSeq(S), str_less)

\* mutant: the list is left in the order of the groups
sort_by_x_plus_rate_skipped(stats) == stats

\* list.sort(key=lambda x: x['x_plus_rate'], reverse=True): descending and stable
RECURSIVE sort_by_x_plus_rate(_)
sort_by_x_plus_rate(stats) ==
    IF stats = <<>> THEN <<>>
    ELSE LET x == Head(stats)
             rest == sort_by_x_plus_rate(Tail(stats))
             above == SelectSeq(rest, LAMBDA y : y.x_plus_rate[1] > x.x_plus_rate[1])
             below == SelectSeq(rest, LAMBDA y : y.x_plus_rate[1] <= x.x_plus_rate[1])
         IN  above \o <<x>> \o below

\* the text written for a missing stylist, for a missing coupon, and for no entry
Unknown == <<"U+4E0D", "U+660E">>

NoCoupon == <<"U+306A", "U+3057">>

NotApplicable == <<"U+8A72", "U+5F53", "U+306A", "U+3057">>

\* fillna(default).replace('', default)
fill_blank(v, default) == IF isna(v) \/ v = <<>> THEN default ELSE v

_analyze_by_stylist(repeat_df, min_customers, min_repeat_count) ==
    LET clean(r) == fill_blank(r.stylist, Unknown)
        names == sorted_keys({clean(repeat_df[i]) : i \in 1..Len(repeat_df)})
        kept == SelectSeq(names,
                          LAMBDA n : ~(Len(SelectSeq(repeat_df, LAMBDA r : clean(r) = n))
                                          < min_customers))
        stat(n) ==
            LET group == SelectSeq(repeat_df, LAMBDA r : clean(r) = n)
                total_customers == Len(group)
            IN  [stylist_name |-> n,
                 total_customers |-> total_customers,
                 x_plus_repeaters |-> repeaters(group, min_repeat_count),
                 x_plus_rate |->
                     round_1(rate_of(repeaters(group, min_repeat_count), total_customers)),
                 first_repeaters |-> repeaters(group, 1),
                 first_repeat_rate |-> round_1(rate_of(repeaters(group, 1), total_customers)),
                 avg_repeat |-> round_1(mean(repeat_counts(group)))]
        stylist_stats == sort_by_x_plus_rate([k \in 1..Len(kept) |-> stat(kept[k])])
    IN  [stylist_stats |-> stylist_stats,
         top_stylist |->
             IF stylist_stats # <<>>
             THEN [name |-> stylist_stats[1].stylist_name, rate |-> stylist_stats[1].x_plus_rate]
             ELSE [name |-> NotApplicable, rate |-> <<0>>],
         total_x_plus_repeaters |-> repeaters(repeat_df, min_repeat_count),
         min_customers_filter |-> min_customers]

_analyze_by_coupon(repeat_df, min_customers, min_repeat_count) ==
    LET clean(r) == fill_blank(r.coupon, NoCoupon)
        names == sorted_keys({clean(repeat_df[i]) : i \in 1..Len(repeat_df)})
        kept == SelectSeq(names,
                          LAMBDA n : ~(Len(SelectSeq(repeat_df, LAMBDA r : clean(r) = n))
                                          < min_customers))
        stat(n) ==
            LET group == SelectSeq(repeat_df, LAMBDA r : clean(r) = n)
                total_customers == Len(group)
                repeaters_only == SelectSeq(group, LAMBDA r : r.repeat_count > 0)
            IN  [coupon_name |-> n,
                 total_customers |-> total_customers,
                 x_plus_repeaters |-> repeaters(group, min_repeat_count),
                 x_plus_rate |->
                     round_1(rate_of(repeaters(group, min_repeat_count), total_customers)),
                 first_repeaters |-> repeaters(group, 1),
                 first_repeat_rate |-> round_1(rate_of(repeaters(group, 1), total_customers)),
                 avg_repeat_repeaters |->
                     IF Len(repeaters_only) > 0
                     THEN round_1(mean(repeat_counts(repeaters_only)))
                     ELSE <<0>>]
        coupon_stats == sort_by_x_plus_rate([k \in 1..Len(kept) |-> stat(kept[k])])
    IN  [coupon_stats |-> coupon_stats,
         best_coupon |->
             IF coupon_stats # <<>>
             THEN [name |-> coupon_stats[1].coupon_name,
                   rate |-> coupon_stats[1].x_plus_rate,
                   avg_repeat |-> coupon_stats[1].avg_repeat_repeaters]
             ELSE [name |-> NotApplicable, rate |-> <<0>>, avg_repeat |-> <<0>>],
         min_customers_filter |-> min_customers]

\* the stages of the target comparison
Stages == {"first_repeat", "second_repeat", "third_repeat"}

\* mutant: the achievement is capped at 100
achievement_rate_capped(actual, target) ==
    IF target > 0
    THEN IF actual[1] * 100 > 100 * actual[2] * target
         THEN Ratio(100, 1) ELSE Ratio(actual[1] * 100, actual[2] * target)
    ELSE Ratio(0, 1)

\* (actual / target * 100) if target > 0 else 0
achievement_rate(actual, target) ==
    IF target > 0 THEN Ratio(actual[1] * 100, actual[2] * target) ELSE Ratio(0, 1)

\* sum(achievement_rates.values()) / len(achievement_rates)
mean_of_three(a, b, c) ==
    LET plus(x, y) == Ratio(x[1] * y[2] + y[1] * x[2], x[2] * y[2])
        total == plus(plus(a, b), c)
    IN  Ratio(total[1], 3 * total[2])

\* target rates are whole percentages
_compare_with_targets(repeat_df, target_rates) ==
    LET total_customers == Len(repeat_df)
        second_visit_customers == repeaters(repeat_df, 1)
        third_visit_customers == repeaters(repeat_df, 2)
        fourth_visit_customers == repeaters(repeat_df, 3)
        actual_rates ==
            [first_repeat |-> rate_of(second_visit_customers, total_customers),
             second_repeat |-> rate_of(third_visit_customers, second_visit_customers),
             third_repeat |-> rate_of(fourth_visit_customers, third_visit_customers)]
        achievement_rates ==
            [st \in Stages |-> achievement_rate(actual_rates[st], target_rates[st])]
        current_counts ==
            [first_repeat |-> second_visit_customers,
             second_repeat |-> third_visit_customers,
             third_repeat |-> fourth_visit_customers]
        base_counts ==
            [first_repeat |-> total_customers,
             second_repeat |-> second_visit_customers,
             third_repeat |-> third_visit_customers]
        target_count(st) == Ratio(base_counts[st] * target_rates[st], 100)
        additional_needed(st) ==
            LET diff == base_counts[st] * target_rates[st] - 100 * current_counts[st]
            IN  Ratio(IF diff > 0 THEN diff ELSE 0, 100)
    IN  [target_rates |-> target_rates,
         actual_rates |-> [st \in Stages |-> round_1(actual_rates[st])],
         achievement_rates |-> [st \in Stages |-> round_1(achievement_rates[st])],
         overall_achievement |->
             round_1(mean_of_three(achievement_rates["first_repeat"],
                                   achievement_rates["second_repeat"],
                                   achievement_rates["third_repeat"])),
         required_additional |->
             [st \in Stages |-> [target_count |-> round_0(target_count(st)),
                                 current_count |-> current_counts[st],
                                 additional_needed |-> round_0(additional_needed(st))]]]

\* the bands of categorize_period in defined_order, each named by its upper edge in
\* days (0 names the band above 90 days)
defined_order == <<7, 14, 30, 60, 90, 0>>

\* _analyze_repeat_periods.categorize_period on a non-null number of days
\* mutant: a first repeat exactly on an edge falls into the next band
categorize_period_edges_excluded(days_val) ==
    IF days_val < 7 THEN 7
    ELSE IF days_val < 14 THEN 14
    ELSE IF days_val < 30 THEN 30
    ELSE IF days_val < 60 THEN 60
    ELSE IF days_val < 90 THEN 90
    ELSE 0

categorize_period(days_val) ==
    IF days_val <= 7 THEN 7
    ELSE IF days_val <= 14 THEN 14
    ELSE IF days_val <= 30 THEN 30
    ELSE IF days_val <= 60 THEN 60
    ELSE IF days_val <= 90 THEN 90
    ELSE 0

\* period_distribution is the sequence of the dict's entries in their order
_analyze_repeat_periods(repeat_df) ==
    LET repeat_customers_with_days ==
            SelectSeq(repeat_df, LAMBDA r : r.days_to_first_repeat # NaT)
        days == [i \in 1..Len(repeat_customers_with_days) |->
                    repeat_customers_with_days[i].days_to_first_repeat[1]]
        count(cat) == Len(SelectSeq(days, LAMBDA d : categorize_period(d) = cat))
        present == SelectSeq(defined_order, LAMBDA cat : count(cat) > 0)
    IN  IF repeat_customers_with_days = <<>>
        THEN [avg_days |-> <<0>>, median_days |-> <<0>>, min_days |-> 0, max_days |-> 0,
              period_distribution |-> <<>>]
        ELSE [avg_days |-> round_1(mean(days)),
              median_days |-> round_1(median(days)),
              min_days |-> SortSeq(days, <)[1],
              max_days |-> SortSeq(days, <)[Len(days)],
              period_distribution |->
                  [k \in 1..Len(present) |->
                      [category |-> present[k],
                       count |-> count(present[k]),
                       percentage |-> round_1(Ratio(count(present[k]) * 100, Len(days)))]]]

\* Series.dt.to_period('M') of a date: <<year, month>>
RECURSIVE year_from(_, _, _)
year_from(n, y, before) ==
    LET len == IF IsLeap(y) THEN 366 ELSE 365
    IN  IF n <= before + len THEN <<y, n - before>> ELSE year_from(n, y + 1, before + len)

RECURSIVE month_from(_, _, _)
month_from(y, m, day_of_year) ==
    IF day_of_year <= DaysInMonth(y, m) THEN m
    ELSE month_from(y, m + 1, day_of_year - DaysInMonth(y, m))

to_period_M(n) ==
    LET yd == year_from(n, 2000, 0)
    IN  <<yd[1], month_from(yd[1], 1, yd[2])>>

\* repeat_df merged with the month of each customer's first visit (new_customers holds
\* one row per customer id), grouped by that month
_analyze_monthly_trends(new_cust, repeat_df) ==
    LET month_of(id) ==
            to_period_M(new_cust[CHOOSE i \in 1..Len(new_cust) : new_cust[i].id = id].date)
        months == {to_period_M(new_cust[i].date) : i \in 1..Len(new_cust)}
        group(mo) == SelectSeq(repeat_df, LAMBDA r : month_of(r.id) = mo)
    IN  [monthly_new_customers |->
             [mo \in months |->
                 Cardinality({i \in 1..Len(new_cust) : to_period_M(new_cust[i].date) = mo})],
         monthly_repeat_rates |->
             [mo \in months |->
                 [new_customers |-> Len(group(mo)),
                  repeaters |-> repeaters(group(mo), 1),
                  repeat_rate |-> round_1(rate_of(repeaters(group(mo), 1), Len(group(mo))))]]]

----------------------------------------------------------------------------
(* The inputs the model draws from *)

MaxRows == 3        \* rows of the visit history uploaded in Spec

MaxIdentRows == 2   \* rows of the export uploaded in SpecIdentity

MaxSessionRows == 2 \* rows of the export analysed again and again in SpecSession

MaxFiles == 2       \* files of an upload in SpecLoad

MaxRecords == 2     \* customers of the frame the views are applied to in SpecViews
MaxCalls == 2       \* analyze_repeat_customers calls of one session in SpecSession
MaxCohortRows == 3  \* rows of the one customer's history uploaded in SpecCohort
MaxPeriodRecords == 2   \* customers of the frame the views are applied to in SpecPeriods
MaxUploads == 2     \* processed-data files the application writes in SpecWeb and SpecUploads
MaxSessions == 2    \* browser sessions that upload at the same time in SpecUploads

\* visit dates as the export writes them: YYYYMMDD, YYYY-MM-DD and YYYY/MM/DD
V_20240101 == <<"2", "0", "2", "4", "0", "1", "0", "1">>

V_2024_01_15 == <<"2", "0", "2", "4", "-", "0", "1", "-", "1", "5">>

V_2024_02_10 == <<"2", "0", "2", "4", "/", "0", "2", "/", "1", "0">>

VisitDates == {V_20240101, V_2024_01_15, V_2024_02_10}

\* date parameters of a request
P_2024_01_01 == <<"2", "0", "2", "4", "-", "0", "1", "-", "0", "1">>

P_2024_01_15 == <<"2", "0", "2", "4", "-", "0", "1", "-", "1", "5">>

P_2024_01_31 == <<"2", "0", "2", "4", "-", "0", "1", "-", "3", "1">>

P_2024_02_10 == <<"2", "0", "2", "4", "-", "0", "2", "-", "1", "0">>

P_2024_03_31 == <<"2", "0", "2", "4", "-", "0", "3", "-", "3", "1">>

P_invalid == <<"s", "o", "o", "n">>

\* a parameter that is no text: JSON null
None == <<"None">>

\* parameter texts pandas reads as a missing date
P_empty == <<>>

P_NaT == <<"N", "a", "T">>

\* the target rates the application passes, in whole percent
TARGET_RATES == [first_repeat |-> 35, second_repeat |-> 45, third_repeat |-> 60]

\* the requests drawn, <<window start, window end, cutoff, min_repeat_count,
\* min_stylist_customers, min_coupon_customers>>: a window that holds the first two
\* visit dates and a window of exactly the second one, each with a cutoff on the
\* second visit date (before the window end 01-31) and with a cutoff after every
\* visit; a start that is no date; a start after the end.  The thresholds are the
\* defaults (3, 10, 5) or small enough for the histories drawn to reach them
AnalysisRequests ==
    {<<P_2024_01_01, P_2024_01_31, P_2024_01_15, 3, 10, 5>>,
     <<P_2024_01_01, P_2024_01_31, P_2024_03_31, 1, 1, 1>>,
     <<P_2024_01_15, P_2024_01_15, P_2024_01_15, 2, 2, 2>>,
     <<P_2024_01_15, P_2024_01_15, P_2024_03_31, 2, 1, 2>>,
     <<P_invalid, P_2024_01_31, P_2024_03_31, 3, 10, 5>>,
     <<P_2024_02_10, P_2024_01_15, P_2024_03_31, 3, 10, 5>>}

\* the requests of a session that analyses one table again and again: valid ones, and
\* ones with a parameter that denotes no date (not a date, empty, "NaT", null) or with
\* the window start after its end
SessionRequests ==
    {<<P_2024_01_01, P_2024_01_31, P_2024_03_31, 1, 1, 1>>,
     <<P_2024_01_15, P_2024_01_15, P_2024_03_31, 2, 1, 2>>,
     <<P_2024_01_01, P_2024_01_31, P_invalid, 1, 1, 1>>,
     <<P_empty, P_2024_01_31, P_2024_03_31, 1, 1, 1>>,
     <<P_2024_01_01, P_2024_01_31, P_NaT, 1, 1, 1>>,
     <<None, P_2024_01_31, P_2024_03_31, 1, 1, 1>>,
     <<P_2024_01_01, P_2024_01_31, None, 1, 1, 1>>,
     <<P_2024_02_10, P_2024_01_15, P_2024_03_31, 1, 1, 1>>}

\* first-visit flags: a true word, a false word, a word outside the vocabulary
FlagTrue == <<"T", "r", "u", "e">>

FlagFalse == <<"U+3044", "U+3044", "U+3048">>

FlagOther == <<"?">>

RawRow(date, status, phone, kana, kanji, custnum, flag) ==
    [rid |-> 0, date |-> date, status |-> status, phone |-> phone, kana |-> kana,
     kanji |-> kanji, custnum |-> custnum, flag |-> flag,
     stylist |-> <<"S", " ", "A">>, coupon |-> NaN]

\* visit histories: the visits of customer "1" (completed with any flag, or not
\* completed with a true or a false flag) and the completed visits of a second
\* customer "2" whose flag and stylist are missing and who booked with a coupon
VisitRows ==
    {RawRow(d, "sumi", <<"1">>, NaN, NaN, NaN, fl) :
        d \in VisitDates, fl \in {FlagTrue, FlagFalse, FlagOther}}
    \cup {RawRow(d, "cancel", <<"1">>, NaN, NaN, NaN, fl) :
        d \in VisitDates, fl \in {FlagTrue, FlagFalse}}
    \cup {[RawRow(d, "sumi", <<"2">>, NaN, NaN, NaN, NaN)
               EXCEPT !.stylist = NaN, !.coupon = <<"C">>] : d \in VisitDates}

\* identity evidence: phones that normalise alike ("090-1", "0901"), to nothing ("-")
\* or are missing; a kana name, a kanji name, a customer number read as a float
IdentPhones == {NaN, <<"0", "9", "0", "-", "1">>, <<"0", "9", "0", "1">>, <<"-">>}

IdentRows ==
    {RawRow(V_20240101, "sumi", ph, ka, kj, cn, FlagTrue) :
        ph \in IdentPhones,
        ka \in {NaN, <<"U+FF71">>},
        kj \in {NaN, <<"X">>},
        cn \in {NaN, <<"<float>", "7", ".", "0">>}}

\* rows of one customer booked with different stylists, several of them on the same
\* day and with different answers to the first-visit question
CohortRows ==
    {[RawRow(d, "sumi", <<"1">>, NaN, NaN, NaN, fl) EXCEPT !.stylist = st] :
        d \in {V_20240101, V_2024_01_15}, fl \in {FlagTrue, FlagFalse},
        st \in {<<"S", "A">>, <<"S", "B">>}}

\* the histories of a session: completed visits of customer "1" (flag true) and of
\* customer "2"
SessionRows ==
    {RawRow(d, "sumi", <<"1">>, NaN, NaN, NaN, FlagTrue) : d \in VisitDates}
    \cup {[RawRow(d, "sumi", <<"2">>, NaN, NaN, NaN, NaN)
               EXCEPT !.stylist = NaN, !.coupon = <<"C">>] : d \in VisitDates}

\* the lines of the files of an upload: a completed visit, a cancelled booking, a line
\* whose visit date is no date
LoadRows ==
    {RawRow(V_20240101, "sumi", <<"1">>, NaN, NaN, NaN, FlagTrue),
     RawRow(V_2024_01_15, "cancel", <<"2">>, NaN, NaN, NaN, FlagTrue),
     RawRow(P_invalid, "sumi", <<"3">>, NaN, NaN, NaN, FlagTrue)}

\* the repeat dates of a customer whose first visit is 2024-01-01 (day 8767): none,
\* after 7 days, after 40 days, both, and those with a third after 100 days
RepeatDateLists ==
    {<<>>, <<8774>>, <<8807>>, <<8774, 8807>>, <<8774, 8807, 8867>>}

\* the RepeatRecords drawn for the k-th customer of a frame
RepeatRecords(k) ==
    {RepeatRecord([id |-> PHONE_ \o IntToStr(k), date |-> 8767, stylist |-> st,
                   coupon |-> NaN], dates) :
        st \in {<<"S", "A">>, NaN}, dates \in RepeatDateLists}

\* days from the first visit to the first repeat, on and next to the edges of the bands
EdgeDays == {1, 7, 8, 14, 15, 30, 31, 60, 61, 90, 91}

\* the RepeatRecords drawn for the k-th customer of a frame of SpecPeriods: a
\* customer who did not come back, or came back once after one of EdgeDays
PeriodRecords(k) ==
    {RepeatRecord([id |-> PHONE_ \o IntToStr(k), date |-> 8767, stylist |-> <<"S", "A">>,
                   coupon |-> NaN], dates) :
        dates \in {<<>>} \cup {<<8767 + d>> : d \in EdgeDays}}

\* target rates with a stage whose target is 0
ZeroTargetRates == [first_repeat |-> 0, second_repeat |-> 45, third_repeat |-> 60]

SeqsUpTo(S, n) == UNION {[1..k -> S] : k \in 1..n}

\* the rows of an export, each tagged with the line it is
Tagged(rs) == [i \in 1..Len(rs) |-> [rs[i] EXCEPT !.rid = i]]

NoParams ==
    [new_customer_start |-> NaN, new_customer_end |-> NaN, repeat_analysis_end |-> NaN,
     min_repeat_count |-> 0, min_stylist_customers |-> 0, min_coupon_customers |-> 0,
     target_rates |-> TARGET_RATES]

NoResults == <<>>

\* the web application is not part of the run
NoWeb == <<>>

\* the columns of the export; the analysis names them by these words:
\*   visit_date, status, phone, kana, kanji, customer_number, first_visit_flag,
\*   stylist, coupon, amount (total amount), gender, menu
FullHeader ==
    {"visit_date", "status", "phone", "kana", "kanji", "customer_number",
     "first_visit_flag", "stylist", "coupon", "amount", "gender", "menu"}

\* headers of a session's export: complete, without the gender column, without the
\* first-visit flag column
Headers == {FullHeader, FullHeader \ {"gender"}, FullHeader \ {"first_visit_flag"}}

\* a file in UTF-8, a file in Shift_JIS, a file no encoding decodes, a file that
\* cannot be opened
Utf8File == [exists |-> TRUE, detected |-> "utf-8", decodes |-> {"utf-8-sig", "utf-8"}]

SjisFile ==
    [exists |-> TRUE, detected |-> "SHIFT_JIS", decodes |-> {"SHIFT_JIS", "cp932", "shift_jis"}]

UndecodableFile == [exists |-> TRUE, detected |-> "None", decodes |-> {}]

UnopenableFile == [exists |-> FALSE, detected |-> "None", decodes |-> {}]

FileStats == {Utf8File, SjisFile, UndecodableFile, UnopenableFile}

\* the default encodings a DataProcessor is constructed with
DefaultEncodings == {"None", "cp932", "utf-8"}

\* what chardet reports for a file (it may name an encoding the file is not in)
SniffedEncodings == {"None", "ascii", "utf-8", "UTF-8-SIG", "SHIFT_JIS", "ISO-8859-1"}

\* the encodings that decode a file without an error: of a file of ASCII text, of
\* Japanese text in UTF-8, in Shift_JIS, in cp932 with vendor characters, and of a
\* file pd.read_csv cannot parse under any encoding
Decodings ==
    {{"ascii", "utf-8", "utf-8-sig", "UTF-8-SIG", "SHIFT_JIS", "shift_jis", "cp932",
      "ISO-8859-1"},
     {"utf-8", "utf-8-sig", "UTF-8-SIG", "ISO-8859-1"},
     {"SHIFT_JIS", "shift_jis", "cp932", "ISO-8859-1"},
     {"cp932", "ISO-8859-1"},
     {}}

----------------------------------------------------------------------------
(* Operations *)

\* load_and_combine_csv_files on the files uploaded; it raises ValueError when no file
\* gave a frame
load_and_combine_csv_files ==
    /\ pc = "start"
    /\ IF all_dataframes(files, disk) = <<>>
       THEN /\ pc' = "load_failed"
            /\ table' = <<>>
            /\ columns' = columns
       ELSE /\ pc' = "loaded"
            /\ table' = combine_and_process(files, disk)
            /\ columns' = processed_columns(columns)
    /\ UNCHANGED <<files, disk, params, new_customers, repeat_data, results, calls, web>>

Reverse(s) == [i \in 1..Len(s) |-> s[Len(s) + 1 - i]]

\* the same export uploaded again with its files swapped, the rows of a file in
\* the opposite order, or the first line of a file removed
Rearranged(fs) ==
    {Reverse(fs)}
    \cup {[fs EXCEPT ![k] = Reverse(fs[k])] : k \in 1..Len(fs)}
    \cup {[fs EXCEPT ![k] = Tail(fs[k])] : k \in {j \in 1..Len(fs) : fs[j] # <<>>}}

\* a further upload: load_and_combine_csv_files on rearranged files
upload_again ==
    /\ pc = "loaded"
    /\ \E fs \in Rearranged(files) :
          /\ files' = fs
          /\ IF all_dataframes(fs, disk) = <<>>
             THEN /\ pc' = "load_failed"
                  /\ table' = <<>>
             ELSE /\ pc' = "loaded"
                  /\ table' = combine_and_process(fs, disk)
    /\ UNCHANGED <<disk, columns, params, new_customers, repeat_data, results, calls, web>>

\* pd.api.types.is_datetime64_any_dtype(df[visit date]): a frame with no parsed date
\* keeps an object column
is_datetime64_any_dtype(df) == df # <<>>

\* the columns analyze_repeat_customers looks for, in the order it does
required_columns ==
    <<"customer_id", "visit_date", "status", "stylist", "coupon", "amount", "gender", "menu">>

\* the strings pandas reads as NaT, and the empty string
nat_strings == {<<"N", "a", "T">>, <<"n", "a", "t">>, <<"N", "A", "T">>,
                <<"n", "a", "n">>, <<"N", "a", "N">>, <<"N", "A", "N">>}

\* pd.to_datetime(date_str) of a parameter gives NaT without raising
is_NaT(date_str) == date_str = <<>> \/ date_str \in nat_strings

\* pd.to_datetime(date_str) of a parameter raises ValueError; pd.to_datetime(None) is None
raises_ValueError(date_str) ==
    date_str # None /\ ~is_NaT(date_str) /\ to_datetime(date_str) = NaT

\* mutant: the comparison is made the other way round
later_swapped(a, b) ==
    ~is_NaT(a) /\ ~is_NaT(b) /\ to_datetime(a)[1] < to_datetime(b)[1]

\* pd.to_datetime(a) > pd.to_datetime(b) of two parameters that parse: False when one
\* of them is NaT
later(a, b) ==
    ~is_NaT(a) /\ ~is_NaT(b) /\ to_datetime(a)[1] > to_datetime(b)[1]

\* mutant: the date parameters are validated before the columns are looked for
raised_dates_first(cols, df, p) ==
    IF \/ raises_ValueError(p.new_customer_start)
       \/ raises_ValueError(p.new_customer_end)
       \/ raises_ValueError(p.repeat_analysis_end)
        THEN <<"ValueError", "date_format">>
    ELSE IF \E i \in 1..Len(required_columns) : required_columns[i] \notin cols
        THEN <<"ValueError", "required_columns">>
    ELSE IF ~is_datetime64_any_dtype(df)
        THEN <<"ValueError", "visit_date_dtype">>
    ELSE IF p.new_customer_start = None \/ p.new_customer_end = None
        THEN <<"TypeError", "start_after_end">>
    ELSE IF later(p.new_customer_start, p.new_customer_end)
        THEN <<"ValueError", "start_after_end">>
    ELSE IF p.repeat_analysis_end = None
        THEN <<"TypeError", "end_after_cutoff">>
    ELSE IF "first_visit_flag" \notin cols
        THEN <<"ValueError", "get_new_customers">>
    ELSE <<>>

\* what analyze_repeat_customers raises before it extracts the cohort, as
\* <<exception, step>>, or <<>> when it raises nothing.  An ordering comparison with
\* None is a TypeError; a window end after the cutoff is only logged; the first-visit
\* flag column is looked for by get_new_customers
raised(cols, df, p) ==
    IF \E i \in 1..Len(required_columns) : required_columns[i] \notin cols
        THEN <<"ValueError", "required_columns">>
    ELSE IF ~is_datetime64_any_dtype(df)
        THEN <<"ValueError", "visit_date_dtype">>
    ELSE IF \/ raises_ValueError(p.new_customer_start)
            \/ raises_ValueError(p.new_customer_end)
            \/ raises_ValueError(p.repeat_analysis_end)
        THEN <<"ValueError", "date_format">>
    ELSE IF p.new_customer_start = None \/ p.new_customer_end = None
        THEN <<"TypeError", "start_after_end">>
    ELSE IF later(p.new_customer_start, p.new_customer_end)
        THEN <<"ValueError", "start_after_end">>
    ELSE IF p.repeat_analysis_end = None
        THEN <<"TypeError", "end_after_cutoff">>
    ELSE IF "first_visit_flag" \notin cols
        THEN <<"ValueError", "get_new_customers">>
    ELSE <<>>

\* get_new_customers on the parameters of a call: no date is >= or <= NaT
new_customers_of(df, p) ==
    IF is_NaT(p.new_customer_start) \/ is_NaT(p.new_customer_end) THEN <<>>
    ELSE get_new_customers(df, to_datetime(p.new_customer_start)[1],
                           to_datetime(p.new_customer_end)[1])

\* _analyze_repeat_patterns on the parameters of a call: no date is <= NaT
repeat_data_of(df, new_cust, p) ==
    IF is_NaT(p.repeat_analysis_end)
    THEN [i \in 1..Len(new_cust) |-> RepeatRecord(new_cust[i], <<>>)]
    ELSE _analyze_repeat_patterns(df, new_cust, to_datetime(p.repeat_analysis_end)[1])

\* mutant: the result of a call that found no new customer carries no marker
empty_analysis_results_without_marker(p) ==
    [basic_stats |-> <<>>, funnel_analysis |-> <<>>, stylist_analysis |-> <<>>,
     coupon_analysis |-> <<>>, target_comparison |-> <<>>, period_analysis |-> <<>>,
     monthly_analysis |-> <<>>,
     parameters |->
         [new_customer_start |-> p.new_customer_start,
          new_customer_end |-> p.new_customer_end,
          repeat_analysis_end |-> p.repeat_analysis_end,
          min_repeat_count |-> p.min_repeat_count,
          min_stylist_customers |-> p.min_stylist_customers,
          min_coupon_customers |-> p.min_coupon_customers,
          target_rates |-> p.target_rates]]

\* the result of a call that found no new customer
empty_analysis_results(p) ==
    [basic_stats |-> <<>>, funnel_analysis |-> <<>>, stylist_analysis |-> <<>>,
     coupon_analysis |-> <<>>, target_comparison |-> <<>>, period_analysis |-> <<>>,
     monthly_analysis |-> <<>>,
     parameters |->
         [new_customer_start |-> p.new_customer_start,
          new_customer_end |-> p.new_customer_end,
          repeat_analysis_end |-> p.repeat_analysis_end,
          min_repeat_count |-> p.min_repeat_count,
          min_stylist_customers |-> p.min_stylist_customers,
          min_coupon_customers |-> p.min_coupon_customers,
          target_rates |-> p.target_rates,
          error |-> "no new customer in the window"]]

\* the result of a call with a cohort
analysis_results(new_cust, repeat_df, p) ==
    [basic_stats |-> _calculate_basic_stats(repeat_df, p.min_repeat_count),
     funnel_analysis |-> _analyze_repeat_funnel(repeat_df),
     stylist_analysis |->
         _analyze_by_stylist(repeat_df, p.min_stylist_customers, p.min_repeat_count),
     coupon_analysis |->
         _analyze_by_coupon(repeat_df, p.min_coupon_customers, p.min_repeat_count),
     target_comparison |-> _compare_with_targets(repeat_df, p.target_rates),
     period_analysis |-> _analyze_repeat_periods(repeat_df),
     monthly_analysis |-> _analyze_monthly_trends(new_cust, repeat_df),
     parameters |->
         [new_customer_start |-> p.new_customer_start,
          new_customer_end |-> p.new_customer_end,
          repeat_analysis_end |-> p.repeat_analysis_end,
          min_repeat_count |-> p.min_repeat_count,
          min_stylist_customers |-> p.min_stylist_customers,
          min_coupon_customers |-> p.min_coupon_customers,
          target_rates |-> p.target_rates]]

\* mutant: get_new_customers adds its working column to the caller's frame
columns_after_get_new_customers_in_place(cols) == cols \cup {"global_first_visit"}

\* the columns of the caller's frame after get_new_customers: the working column of the
\* earliest visit is added to df_copy, a copy of the frame
columns_after_get_new_customers(cols) == cols

\* one call analyze_repeat_customers(table, ...) with the arguments of req
analyze(req) ==
    /\ params' = [new_customer_start |-> req[1], new_customer_end |-> req[2],
                  repeat_analysis_end |-> req[3], min_repeat_count |-> req[4],
                  min_stylist_customers |-> req[5], min_coupon_customers |-> req[6],
                  target_rates |-> TARGET_RATES]
    /\ IF raised(columns, table, params') # <<>>
       THEN /\ pc' = "analysis_failed"
            /\ new_customers' = <<>>
            /\ repeat_data' = <<>>
            /\ results' = [raised |-> raised(columns, table, params')[1],
                           at |-> raised(columns, table, params')[2]]
            /\ columns' = columns
       ELSE /\ pc' = "analyzed"
            /\ new_customers' = new_customers_of(table, params')
            /\ repeat_data' =
                  IF Len(new_customers') = 0 THEN <<>>
                  ELSE repeat_data_of(table, new_customers', params')
            /\ results' =
                  IF Len(new_customers') = 0 THEN empty_analysis_results(params')
                  ELSE analysis_results(new_customers', repeat_data', params')
            /\ columns' = columns_after_get_new_customers(columns)
    /\ calls' = calls + 1
    /\ UNCHANGED <<files, disk, table, web>>

\* analyze_repeat_customers on the table just loaded
analyze_repeat_customers ==
    /\ pc = "loaded"
    /\ \E req \in AnalysisRequests : analyze(req)

\* a further analyze_repeat_customers call of the session on the same table
analyze_again ==
    /\ pc \in {"loaded", "analyzed", "analysis_failed"}
    /\ calls < MaxCalls
    /\ \E req \in SessionRequests : analyze(req)

InitVisits ==
    /\ \E rs \in SeqsUpTo(VisitRows, MaxRows) : files = <<Tagged(rs)>>
    /\ disk = <<Utf8File>>
    /\ table = <<>>
    /\ columns = FullHeader
    /\ pc = "start"
    /\ params = NoParams
    /\ new_customers = <<>>
    /\ repeat_data = <<>>
    /\ results = NoResults
    /\ calls = 0
    /\ web = NoWeb

InitIdentity ==
    /\ \E rs \in SeqsUpTo(IdentRows, MaxIdentRows) :
          \E k \in 0..Len(rs) :
             files = <<SubSeq(Tagged(rs), 1, k), SubSeq(Tagged(rs), k + 1, Len(rs))>>
    /\ disk = <<Utf8File, Utf8File>>
    /\ table = <<>>
    /\ columns = FullHeader
    /\ pc = "start"
    /\ params = NoParams
    /\ new_customers = <<>>
    /\ repeat_data = <<>>
    /\ results = NoResults
    /\ calls = 0
    /\ web = NoWeb

\* a session: one export, with one of the headers, is loaded and analysed repeatedly
InitSession ==
    /\ \E rs \in SeqsUpTo(SessionRows, MaxSessionRows) : files = <<Tagged(rs)>>
    /\ disk = <<Utf8File>>
    /\ table = <<>>
    /\ columns \in Headers
    /\ pc = "start"
    /\ params = NoParams
    /\ new_customers = <<>>
    /\ repeat_data = <<>>
    /\ results = NoResults
    /\ calls = 0
    /\ web = NoWeb

\* one export with the history of one customer
InitCohort ==
    /\ \E rs \in SeqsUpTo(CohortRows, MaxCohortRows) : files = <<Tagged(rs)>>
    /\ disk = <<Utf8File>>
    /\ table = <<>>
    /\ columns = FullHeader
    /\ pc = "start"
    /\ params = NoParams
    /\ new_customers = <<>>
    /\ repeat_data = <<>>
    /\ results = NoResults
    /\ calls = 0
    /\ web = NoWeb

\* an upload of several files; a file with no row is a file with a header only, and
\* the rid of a line tells its file and its line
InitLoad ==
    /\ \E n \in 1..MaxFiles :
          /\ \E fs \in [1..n -> {<<>>} \cup SeqsUpTo(LoadRows, 1)] :
                files = [k \in 1..n |->
                            [i \in 1..Len(fs[k]) |-> [fs[k][i] EXCEPT !.rid = 10 * k + i]]]
          /\ disk \in [1..n -> FileStats]
    /\ table = <<>>
    /\ columns = FullHeader
    /\ pc = "start"
    /\ params = NoParams
    /\ new_customers = <<>>
    /\ repeat_data = <<>>
    /\ results = NoResults
    /\ calls = 0
    /\ web = NoWeb

\* the views applied to a frame of RepeatRecords, the frame with no customer included
InitViews ==
    /\ \E n \in 0..MaxRecords :
          \E df \in [1..n -> UNION {RepeatRecords(k) : k \in 1..n}] :
             /\ \A k \in 1..n : df[k] \in RepeatRecords(k)
             /\ repeat_data = df
    /\ files = <<>>
    /\ disk = <<>>
    /\ table = <<>>
    /\ columns = FullHeader
    /\ pc = "views"
    /\ params = NoParams
    /\ new_customers = <<>>
    /\ results = NoResults
    /\ calls = 0
    /\ web = NoWeb

\* one file handed to the _load_single_csv of a DataProcessor constructed with a
\* default encoding
InitEncoding ==
    /\ \E default \in DefaultEncodings : params = [default_encoding |-> default]
    /\ \E detected \in SniffedEncodings, decodes \in Decodings :
          disk = <<[exists |-> TRUE, detected |-> detected, decodes |-> decodes]>>
    /\ files = <<Tagged(<<RawRow(V_20240101, "sumi", <<"1">>, NaN, NaN, NaN, FlagTrue)>>)>>
    /\ table = <<>>
    /\ columns = FullHeader
    /\ pc = "single_file"
    /\ new_customers = <<>>
    /\ repeat_data = <<>>
    /\ results = NoResults
    /\ calls = 0
    /\ web = NoWeb

\* _load_single_csv of that DataProcessor on the file: the frame read (None when every
\* encoding failed) and the encoding the success is logged with
load_single_csv ==
    /\ pc = "single_file"
    /\ LET tries == encodings_to_try_of(params.default_encoding, disk[1].detected)
           encoding == first_success(tries, disk[1].decodes)
       IN  /\ results' = [df |-> IF encoding = "None" THEN <<>> ELSE <<files[1]>>,
                          encoding |-> encoding,
                          tried |-> IF encoding = "None" THEN tries
                                    ELSE SubSeq(tries, 1,
                                                CHOOSE i \in 1..Len(tries) :
                                                   /\ tries[i] = encoding
                                                   /\ \A j \in 1..(i - 1) : tries[j] # encoding)]
           /\ pc' = IF encoding = "None" THEN "single_file_failed" ELSE "single_file_read"
    /\ UNCHANGED <<files, disk, table, columns, params, new_customers, repeat_data, calls, web>>

\* the views applied to a frame of PeriodRecords
InitPeriods ==
    /\ \E n \in 0..MaxPeriodRecords :
          \E df \in [1..n -> UNION {PeriodRecords(k) : k \in 1..n}] :
             /\ \A k \in 1..n : df[k] \in PeriodRecords(k)
             /\ repeat_data = df
    /\ files = <<>>
    /\ disk = <<>>
    /\ table = <<>>
    /\ columns = FullHeader
    /\ pc = "views"
    /\ params = NoParams
    /\ new_customers = <<>>
    /\ results = NoResults
    /\ calls = 0
    /\ web = NoWeb

\* _calculate_basic_stats, _analyze_repeat_funnel, _analyze_by_stylist,
\* _analyze_by_coupon, _compare_with_targets and _analyze_repeat_periods applied to the
\* frame
apply_views ==
    /\ pc = "views"
    /\ \E min_repeat_count \in {1, 3}, min_customers \in {1, 2},
          target_rates \in {TARGET_RATES, ZeroTargetRates} :
          /\ params' = [params EXCEPT !.min_repeat_count = min_repeat_count,
                                      !.min_stylist_customers = min_customers,
                                      !.min_coupon_customers = min_customers,
                                      !.target_rates = target_rates]
          /\ results' =
                [basic_stats |-> _calculate_basic_stats(repeat_data, min_repeat_count),
                 funnel_analysis |-> _analyze_repeat_funnel(repeat_data),
                 stylist_analysis |->
                     _analyze_by_stylist(repeat_data, min_customers, min_repeat_count),
                 coupon_analysis |->
                     _analyze_by_coupon(repeat_data, min_customers, min_repeat_count),
                 target_comparison |-> _compare_with_targets(repeat_data, target_rates),
                 period_analysis |-> _analyze_repeat_periods(repeat_data)]
    /\ pc' = "viewed"
    /\ UNCHANGED <<files, disk, table, columns, new_customers, repeat_data, calls, web>>

----------------------------------------------------------------------------
(* The web application: app.py.  web is a record of                          *)
(*   session    the session dict of each browser session                     *)
(*   processed  the files of PROCESSED_DATA_FOLDER: name -> the table pickled *)
(*   uploads    the files of UPLOAD_FOLDER: name -> content of the file       *)
(*   request    per session, the file_paths of an upload request whose files *)
(*              are saved and not yet loaded (<<>> when there is none)       *)
(*   response   per session, the last response it was sent                   *)
(*   made       how many processed-data files were written so far            *)
(*   history    per session, what no handler reads: the table of its last    *)
(*              successful upload and the parameters of the analyze request  *)
(*              that succeeded after it, both forgotten on the index page    *)

\* d[k] = v on a dict
dict_set(d, k, v) == [x \in DOMAIN d \cup {k} |-> IF x = k THEN v ELSE d[x]]

\* d.pop(k, None) on a dict
dict_pop(d, k) == [x \in DOMAIN d \ {k} |-> d[x]]

\* s.endswith(suffix)
endswith(s, suffix) ==
    Len(s) >= Len(suffix) /\ SubSeq(s, Len(s) - Len(suffix) + 1, Len(s)) = suffix

\* '_'.join(s.split()) of a text with no whitespace at its ends
RECURSIVE join_split(_)
join_split(s) ==
    IF s = <<>> THEN <<>>
    ELSE IF Head(s) \in Whitespace
         THEN IF Len(s) > 1 /\ s[2] \in Whitespace THEN join_split(Tail(s))
              ELSE <<"_">> \o join_split(Tail(s))
    ELSE <<Head(s)>> \o join_split(Tail(s))

\* the characters werkzeug's secure_filename keeps
filename_ascii ==
    {Alphabet[i] : i \in {j \in 1..Len(Alphabet) :
                            /\ Code("0") <= j /\ j <= Code("z")
                            /\ Alphabet[j] # "?"}} \cup {"-", "."}

RECURSIVE strip_dots(_)
strip_dots(s) ==
    IF s = <<>> THEN s
    ELSE IF Head(s) \in {".", "_"} THEN strip_dots(Tail(s))
    ELSE IF s[Len(s)] \in {".", "_"} THEN strip_dots(SubSeq(s, 1, Len(s) - 1))
    ELSE s

\* werkzeug.utils.secure_filename of a name without a path separator: characters
\* outside ASCII are dropped (the names drawn hold none that NFKD maps to ASCII),
\* whitespace becomes "_", leading and trailing dots and underscores are stripped
secure_filename(filename) ==
    strip_dots(SelectSeq(join_split(strip(filename)), LAMBDA c : c \in filename_ascii))

dot_csv == <<".", "c", "s", "v">>

\* datetime.strftime('%Y-%m-%d') of a day
strftime_Y_m_d(n) ==
    LET yd == year_from(n, 2000, 0)
        y == yd[1]
        m == month_from(y, 1, yd[2])
        d == yd[2] - DaysBeforeMonth(y, m)
        two(k) == IF k < 10 THEN <<"0">> \o IntToStr(k) ELSE IntToStr(k)
    IN  IntToStr(y) \o <<"-">> \o two(m) \o <<"-">> \o two(d)

\* DataProcessor.get_date_range: the first and the last visit date of a table as
\* texts, (None, None) for a table with no date
get_date_range(df) ==
    IF df = <<>> THEN <<None, None>>
    ELSE LET days == {df[i].date : i \in 1..Len(df)}
         IN  <<strftime_Y_m_d(SetMin(days)),
               strftime_Y_m_d(CHOOSE x \in days : \A z \in days : z <= x)>>

\* cleanup_session_files: the files of PROCESSED_DATA_FOLDER after it ran for a session
cleanup_session_files(sess, processed) ==
    IF /\ "processed_data_path" \in DOMAIN sess
       /\ sess["processed_data_path"] \in DOMAIN processed
    THEN [p \in DOMAIN processed \ {sess["processed_data_path"]} |-> processed[p]]
    ELSE processed

\* the files of an upload request the loop of upload_files saves
csv_files(uploaded_files) ==
    SelectSeq(uploaded_files,
              LAMBDA f : f.filename # <<>> /\ endswith(f.filename, dot_csv))

\* UPLOAD_FOLDER after file_in.save(file_path) of each of the files, in their order
RECURSIVE saved(_, _)
saved(uploads, fs) ==
    IF fs = <<>> THEN uploads
    ELSE saved(dict_set(uploads, secure_filename(Head(fs).filename),
                        [content |-> Head(fs).content, stat |-> Head(fs).stat]),
               Tail(fs))

\* mutant: a successful upload leaves the analysis_performed flag as it was
session_after_upload_flag_kept(sess, path, dates) ==
    dict_set(dict_set(dict_set(sess, "processed_data_path", path),
                      "min_date", dates[1]),
             "max_date", dates[2])

\* the session dict after a successful upload
session_after_upload(sess, path, dates) ==
    dict_set(dict_set(dict_set(dict_set(sess, "processed_data_path", path),
                               "min_date", dates[1]),
                      "max_date", dates[2]),
             "analysis_performed", FALSE)

\* the session dict after a successful analyze request
session_after_analyze(sess, analysis, p) ==
    dict_set(dict_set(dict_set(sess, "analysis_results", analysis),
                      "analysis_parameters", p),
             "analysis_performed", TRUE)

\* the session dict after the index page
session_after_index(sess) ==
    dict_pop(dict_pop(dict_pop(dict_pop(dict_pop(dict_pop(sess,
        "processed_data_path"), "min_date"), "max_date"), "analysis_results"),
        "analysis_parameters"), "analysis_performed")

\* session.get('analysis_performed', False)
analysis_performed(sess) ==
    "analysis_performed" \in DOMAIN sess /\ sess["analysis_performed"]

\* analysis_results and analysis_parameters are in the session and not empty (a
\* result dict always has its eight keys)
analysis_in_session(sess) ==
    "analysis_results" \in DOMAIN sess /\ "analysis_parameters" \in DOMAIN sess

\* the parameters analyze_data reads from the JSON body of a request
request_parameters(req) ==
    [new_customer_start |-> req[1], new_customer_end |-> req[2],
     repeat_analysis_end |-> req[3], min_repeat_count |-> req[4],
     min_stylist_customers |-> req[5], min_coupon_customers |-> req[6],
     target_rates |-> TARGET_RATES]

\* what analyze_repeat_customers returns to analyze_data on a table that passed its
\* checks
analysis_of(df, p) ==
    IF new_customers_of(df, p) = <<>> THEN empty_analysis_results(p)
    ELSE analysis_results(new_customers_of(df, p),
                          repeat_data_of(df, new_customers_of(df, p), p), p)

\* file names of an upload
data_csv == <<"d", "a", "t", "a", ".", "c", "s", "v">>

notes_txt == <<"n", "o", "t", "e", "s", ".", "t", "x", "t">>

kanji_csv == <<"U+521D", ".", "c", "s", "v">>

own_csv(s) == <<"s">> \o IntToStr(s) \o dot_csv

\* the export of session s with k visits of its one customer; the rid of a line
\* tells the session whose export it is
WebRows(s, k) ==
    [i \in 1..k |->
        [RawRow(IF i = 1 THEN V_20240101 ELSE V_2024_01_15, "sumi", IntToStr(s),
                NaN, NaN, NaN, FlagTrue) EXCEPT !.rid = 10 * s + i]]

UploadedFile(filename, content, stat) ==
    [filename |-> filename, content |-> content, stat |-> stat]

\* the upload requests of session s: no file field, a field with no file chosen, a
\* file that is no CSV, its export (with one visit or two) as data.csv, under a
\* name of its own and under a name in kanji, a CSV no encoding decodes, and a
\* text file together with the export
UploadRequests(s) ==
    {<<>>,
     <<UploadedFile(<<>>, <<>>, Utf8File)>>,
     <<UploadedFile(notes_txt, <<>>, Utf8File)>>,
     <<UploadedFile(data_csv, WebRows(s, 1), Utf8File)>>,
     <<UploadedFile(data_csv, WebRows(s, 2), Utf8File)>>,
     <<UploadedFile(own_csv(s), WebRows(s, 1), Utf8File)>>,
     <<UploadedFile(kanji_csv, WebRows(s, 1), Utf8File)>>,
     <<UploadedFile(data_csv, WebRows(s, 1), UndecodableFile)>>,
     <<UploadedFile(notes_txt, <<>>, Utf8File),
       UploadedFile(data_csv, WebRows(s, 2), Utf8File)>>}

\* the analyze requests of a session: two valid ones and one whose start is no date
WebRequests ==
    {<<P_2024_01_01, P_2024_01_31, P_2024_03_31, 1, 1, 1>>,
     <<P_2024_01_15, P_2024_01_15, P_2024_03_31, 2, 1, 2>>,
     <<P_invalid, P_2024_01_31, P_2024_03_31, 1, 1, 1>>}

NoHistory == [uploaded |-> <<>>, analysed |-> <<>>]

NoResponse == [route |-> "none", status |-> 0, body |-> "none"]

Response(route, status, body) == [route |-> route, status |-> status, body |-> body]

\* the requests of session s are handled one after the other
Idle(s) == web.request[s] = <<>>

InFlight == Cardinality({s \in DOMAIN web.session : web.request[s] # <<>>})

\* GET /
index ==
    /\ pc = "web"
    /\ \E s \in DOMAIN web.session :
          /\ Idle(s)
          /\ web' = [web EXCEPT
                !.processed = cleanup_session_files(web.session[s], web.processed),
                !.session[s] = session_after_index(web.session[s]),
                !.response[s] = Response("index", 200, "index.html"),
                !.history[s] = NoHistory]
    /\ UNCHANGED <<files, disk, table, columns, pc, params, new_customers, repeat_data,
                   results, calls>>

\* POST /upload up to the end of the loop that saves the files: the cleanup, the two
\* checks that answer 400, the files written into UPLOAD_FOLDER
upload_files ==
    /\ pc = "web"
    /\ web.made + InFlight < MaxUploads
    /\ \E s \in DOMAIN web.session : \E uploaded_files \in UploadRequests(s) :
          /\ Idle(s)
          /\ LET cleaned == cleanup_session_files(web.session[s], web.processed)
                 csvs == csv_files(uploaded_files)
                 file_paths == [i \in 1..Len(csvs) |-> secure_filename(csvs[i].filename)]
             IN  IF uploaded_files = <<>> \/ uploaded_files[1].filename = <<>>
                 THEN web' = [web EXCEPT
                         !.processed = cleaned,
                         !.response[s] = Response("upload", 400, "no file selected")]
                 ELSE IF file_paths = <<>>
                 THEN web' = [web EXCEPT
                         !.processed = cleaned,
                         !.response[s] = Response("upload", 400, "no CSV file")]
                 ELSE web' = [web EXCEPT
                         !.processed = cleaned,
                         !.uploads = saved(web.uploads, csvs),
                         !.request[s] = <<file_paths>>]
    /\ UNCHANGED <<files, disk, table, columns, pc, params, new_customers, repeat_data,
                   results, calls>>

\* POST /upload from load_and_combine_csv_files on: the files named by file_paths are
\* read from UPLOAD_FOLDER, the table is pickled under a new name and the session
\* is pointed to it; an exception answers 500
upload_files_load ==
    /\ pc = "web"
    /\ \E s \in DOMAIN web.session :
          /\ ~Idle(s)
          /\ LET file_paths == web.request[s][1]
                 contents == [i \in 1..Len(file_paths) |-> web.uploads[file_paths[i]].content]
                 stats == [i \in 1..Len(file_paths) |-> web.uploads[file_paths[i]].stat]
                 combined_data == combine_and_process(contents, stats)
                 processed_data_path == web.made + 1
             IN  IF all_dataframes(contents, stats) = <<>>
                 THEN web' = [web EXCEPT
                         !.request[s] = <<>>,
                         !.response[s] = Response("upload", 500, "error")]
                 ELSE web' = [web EXCEPT
                         !.request[s] = <<>>,
                         !.processed = dict_set(web.processed, processed_data_path,
                                                combined_data),
                         !.made = processed_data_path,
                         !.session[s] =
                             session_after_upload(web.session[s], processed_data_path,
                                                  get_date_range(combined_data)),
                         !.response[s] = Response("upload", 200, "success"),
                         !.history[s] = [uploaded |-> <<combined_data>>,
                                         analysed |-> <<>>]]
    /\ UNCHANGED <<files, disk, table, columns, pc, params, new_customers, repeat_data,
                   results, calls>>

\* POST /analyze
analyze_data ==
    /\ pc = "web"
    /\ \E s \in DOMAIN web.session : \E req \in WebRequests :
          /\ Idle(s)
          /\ LET sess == web.session[s]
                 p == request_parameters(req)
             IN  IF \/ "processed_data_path" \notin DOMAIN sess
                    \/ sess["processed_data_path"] \notin DOMAIN web.processed
                 THEN web' = [web EXCEPT
                         !.response[s] = Response("analyze", 400, "no processed data")]
                 ELSE LET raw_data == web.processed[sess["processed_data_path"]]
                      IN  IF raised(processed_columns(FullHeader), raw_data, p) # <<>>
                          THEN web' = [web EXCEPT
                                  !.response[s] = Response("analyze", 500, "error")]
                          ELSE web' = [web EXCEPT
                                  !.session[s] =
                                      session_after_analyze(sess, analysis_of(raw_data, p), p),
                                  !.response[s] = Response("analyze", 200, "success"),
                                  !.history[s].analysed = <<p>>]
    /\ UNCHANGED <<files, disk, table, columns, pc, params, new_customers, repeat_data,
                   results, calls>>

\* GET /dashboard: the visualizer may raise on the results, which answers error.html
dashboard ==
    /\ pc = "web"
    /\ \E s \in DOMAIN web.session :
          /\ Idle(s)
          /\ IF ~analysis_performed(web.session[s])
             THEN web' = [web EXCEPT !.response[s] = Response("dashboard", 302, "index")]
             ELSE IF ~analysis_in_session(web.session[s])
             THEN web' = [web EXCEPT
                     !.response[s] = Response("dashboard", 200, "error.html")]
             ELSE \E body \in {"dashboard.html", "error.html"} :
                     web' = [web EXCEPT !.response[s] = Response("dashboard", 200, body)]
    /\ UNCHANGED <<files, disk, table, columns, pc, params, new_customers, repeat_data,
                   results, calls>>

\* GET /report: the generator may raise on the results, which answers error.html
generate_report ==
    /\ pc = "web"
    /\ \E s \in DOMAIN web.session :
          /\ Idle(s)
          /\ IF ~analysis_performed(web.session[s]) \/ ~analysis_in_session(web.session[s])
             THEN web' = [web EXCEPT !.response[s] = Response("report", 200, "error.html")]
             ELSE \E body \in {"report.txt", "error.html"} :
                     web' = [web EXCEPT !.response[s] = Response("report", 200, body)]
    /\ UNCHANGED <<files, disk, table, columns, pc, params, new_customers, repeat_data,
                   results, calls>>

\* the application with the sessions of S, before any request
InitSessions(S) ==
    /\ files = <<>>
    /\ disk = <<>>
    /\ table = <<>>
    /\ columns = FullHeader
    /\ pc = "web"
    /\ params = NoParams
    /\ new_customers = <<>>
    /\ repeat_data = <<>>
    /\ results = NoResults
    /\ calls = 0
    /\ web = [session |-> [s \in S |-> <<>>],
              processed |-> <<>>,
              uploads |-> <<>>,
              request |-> [s \in S |-> <<>>],
              response |-> [s \in S |-> NoResponse],
              made |-> 0,
              history |-> [s \in S |-> NoHistory]]

\* one browser session
InitWeb == InitSessions({1})

\* several browser sessions that upload at the same time
InitUploads == InitSessions(1..MaxSessions)

Init == InitVisits

Next == load_and_combine_csv_files \/ analyze_repeat_customers

Spec == Init /\ [][Next]_vars

NextIdentity == load_and_combine_csv_files \/ upload_again

SpecIdentity == InitIdentity /\ [][NextIdentity]_vars

NextSession == load_and_combine_csv_files \/ analyze_again

SpecSession == InitSession /\ [][NextSession]_vars

NextLoad == load_and_combine_csv_files

SpecLoad == InitLoad /\ [][NextLoad]_vars

NextCohort == load_and_combine_csv_files \/ analyze_repeat_customers

SpecCohort == InitCohort /\ [][NextCohort]_vars

NextEncoding == load_single_csv

SpecEncoding == InitEncoding /\ [][NextEncoding]_vars

NextPeriods == apply_views

SpecPeriods == InitPeriods /\ [][NextPeriods]_vars

NextWeb ==
    index \/ upload_files \/ upload_files_load \/ analyze_data \/ dashboard \/ generate_report

SpecWeb == InitWeb /\ [][NextWeb]_vars

NextUploads == upload_files \/ upload_files_load

SpecUploads == InitUploads /\ [][NextUploads]_vars

NextViews == apply_views

SpecViews == InitViews /\ [][NextViews]_vars

----------------------------------------------------------------------------
(* Properties of identity resolution, checked under SpecIdentity *)

\* the normalized phone as the specification defines it: the raw phone with every
\* non-digit removed
DigitsOnly(raw) == SelectSeq(raw, LAMBDA c : c \in Digits)

HasNormalizedPhone(r) == notna(r.phone_raw) /\ DigitsOnly(r.phone_raw) # <<>>

\* C1: after data processing, any two rows whose normalized phone numbers are equal
\* and non-null carry the same customer id, whatever their names, customer numbers,
\* source file or position.
C1_SamePhoneSameId ==
    pc = "loaded" =>
        \A i, j \in 1..Len(table) :
            (/\ HasNormalizedPhone(table[i])
             /\ HasNormalizedPhone(table[j])
             /\ DigitsOnly(table[i].phone_raw) = DigitsOnly(table[j].phone_raw))
            => table[i].id = table[j].id

\* two rows of different files, with different raw phones that normalize alike and
\* with different name-keys, were given one id
C1_Witness ==
    /\ pc = "loaded"
    /\ Len(files[1]) > 0 /\ Len(files[2]) > 0
    /\ \E i, j \in 1..Len(table) :
          /\ HasNormalizedPhone(table[i])
          /\ table[i].phone_raw # table[j].phone_raw
          /\ notna(table[j].phone_raw)
          /\ DigitsOnly(table[i].phone_raw) = DigitsOnly(table[j].phone_raw)
          /\ table[i].name_key # table[j].name_key
          /\ table[i].custnum_cleaned # table[j].custnum_cleaned
          /\ table[i].id = table[j].id

\* the highest-priority evidence a row has
Evidence(r) ==
    IF truthy(r.phone) THEN <<"phone", r.phone>>
    ELSE IF truthy(r.name_key) THEN <<"name", r.name_key>>
    ELSE IF truthy(r.custnum_cleaned) THEN <<"customer-number", r.custnum_cleaned>>
    ELSE <<"none", <<>>>>

\* C2: every row is resolved by the highest-priority evidence it has (phone, else
\* name-key, else customer number): two rows share an id exactly when they have the
\* same highest-priority evidence, a row with no evidence shares its id with no other
\* row, and a row resolved by name-key (phone absent) shares an id only with rows of
\* the same name-key, never with a row that only shares its customer number.
C2_PriorityOrder ==
    pc = "loaded" =>
        \A i, j \in 1..Len(table) :
            i # j =>
                /\ (table[i].id = table[j].id)
                    <=> (Evidence(table[i]) = Evidence(table[j])
                         /\ Evidence(table[i])[1] # "none")
                /\ (~truthy(table[i].phone) /\ truthy(table[i].name_key)
                    /\ table[i].id = table[j].id)
                    => table[j].name_key = table[i].name_key

\* a row without phone resolved by its name-key and another row with the same
\* customer number but another name-key were kept apart
C2_Witness ==
    /\ pc = "loaded"
    /\ \E i, j \in 1..Len(table) :
          /\ ~truthy(table[i].phone) /\ truthy(table[i].name_key)
          /\ truthy(table[i].custnum_cleaned)
          /\ table[j].custnum_cleaned = table[i].custnum_cleaned
          /\ truthy(table[j].name_key)
          /\ table[j].name_key # table[i].name_key
          /\ table[i].id # table[j].id

HasEvidence(r) == Evidence(r)[1] # "none"

----------------------------------------------------------------------------
(* Properties of cohort extraction and repeat patterns, checked under Spec *)

window_start == to_datetime(params.new_customer_start)[1]

window_end == to_datetime(params.new_customer_end)[1]

cutoff == to_datetime(params.repeat_analysis_end)[1]

Rows == 1..Len(table)

Completed(i) == table[i].status = Sumi

NewIds == {new_customers[k].id : k \in 1..Len(new_customers)}

CompletedRows(id) == {i \in Rows : table[i].id = id /\ Completed(i)}

\* the earliest completed visit of a customer that has one
GlobalFirstVisit(id) == SetMin({table[i].date : i \in CompletedRows(id)})

\* C5: the first visit used for a customer is the earliest of the customer's
\* completed visits: no visit with another status is reported as a first visit, and
\* the date reported for a new customer is the date of the earliest completed visit.
C5_FirstVisitIsCompleted ==
    pc = "analyzed" =>
        \A k \in 1..Len(new_customers) :
            /\ new_customers[k].status = Sumi
            /\ new_customers[k].date = GlobalFirstVisit(new_customers[k].id)

\* C6: a customer is returned if and only if the global first-visit date d (the
\* earliest completed visit) lies in [start, end], both bounds included, and the
\* flag of the visit at d is true or unknown.
C6_NewCustomerIff ==
    pc = "analyzed" =>
        \A id \in {table[i].id : i \in Rows} :
            id \in NewIds
            <=> /\ CompletedRows(id) # {}
                /\ GlobalFirstVisit(id) >= window_start
                /\ GlobalFirstVisit(id) <= window_end
                /\ \E i \in CompletedRows(id) :
                      /\ table[i].date = GlobalFirstVisit(id)
                      /\ table[i].flag \in {"True", "None"}

\* the completed visits of a customer strictly after a first-visit date and on or
\* before the cutoff
QualifyingRepeats(id, first) ==
    {i \in Rows : /\ table[i].id = id
                  /\ Completed(i)
                  /\ table[i].date > first
                  /\ table[i].date <= cutoff}

\* C7: repeat_count is the number of the customer's completed visits dated strictly
\* after the first visit and on or before the cutoff; days_to_first_repeat is the
\* earliest such date minus the first-visit date, or null when there is none.
C7_RepeatCountAndDays ==
    pc = "analyzed" =>
        \A k \in 1..Len(repeat_data) :
            LET rec == repeat_data[k]
                q == QualifyingRepeats(rec.id, rec.first_visit)
            IN  /\ rec.repeat_count = Cardinality(q)
                /\ rec.days_to_first_repeat =
                      IF q = {} THEN NaT
                      ELSE <<SetMin({table[i].date : i \in q}) - rec.first_visit>>

\* first visit 2024-01-01, a completed visit 2024-01-15, cutoff 2024-03-31:
\* repeat_count 1 and 14 days
C7_Witness ==
    /\ pc = "analyzed"
    /\ params.repeat_analysis_end = P_2024_03_31
    /\ \E k \in 1..Len(repeat_data) :
          /\ repeat_data[k].first_visit = Ordinal(2024, 1, 1)
          /\ repeat_data[k].repeat_dates = <<Ordinal(2024, 1, 15)>>
          /\ repeat_data[k].repeat_count = 1
          /\ repeat_data[k].days_to_first_repeat = <<14>>

\* C8: the length of repeat_dates equals repeat_count, and every date of
\* repeat_dates is strictly after the first-visit date and on or before the cutoff.
C8_RepeatDatesConserved ==
    pc = "analyzed" =>
        \A k \in 1..Len(repeat_data) :
            /\ Len(repeat_data[k].repeat_dates) = repeat_data[k].repeat_count
            /\ \A n \in 1..Len(repeat_data[k].repeat_dates) :
                  /\ repeat_data[k].repeat_dates[n] > repeat_data[k].first_visit
                  /\ repeat_data[k].repeat_dates[n] <= cutoff

\* a customer with a counted repeat also has a completed visit after the cutoff
C8_Witness ==
    /\ pc = "analyzed"
    /\ \E k \in 1..Len(repeat_data) :
          /\ repeat_data[k].repeat_count >= 1
          /\ \E i \in Rows :
                /\ table[i].id = repeat_data[k].id
                /\ Completed(i)
                /\ table[i].date > cutoff

\* C9 as claimed: repeat_dates is strictly increasing, no two entries are the same
\* date.
C9_StrictlyIncreasing ==
    pc = "analyzed" =>
        \A k \in 1..Len(repeat_data) :
            \A m, n \in 1..Len(repeat_data[k].repeat_dates) :
                m < n => repeat_data[k].repeat_dates[m] < repeat_data[k].repeat_dates[n]

\* C9 as amended: repeat_dates is in chronological, non-decreasing order.
C9_Chronological ==
    pc = "analyzed" =>
        \A k \in 1..Len(repeat_data) :
            \A m, n \in 1..Len(repeat_data[k].repeat_dates) :
                m < n => repeat_data[k].repeat_dates[m] <= repeat_data[k].repeat_dates[n]

\* two repeats of one customer stand in the table in the opposite order of their
\* dates and both are in repeat_dates
C9_Witness ==
    /\ pc = "analyzed"
    /\ \E k \in 1..Len(repeat_data) :
          /\ Len(repeat_data[k].repeat_dates) = 2
          /\ \E i, j \in QualifyingRepeats(repeat_data[k].id, repeat_data[k].first_visit) :
                i < j /\ table[i].date > table[j].date

\* C10: there is exactly one RepeatRecord per new customer, in the same order, and
\* a new customer with no qualifying repeat visit is kept with repeat_count 0,
\* empty repeat_dates and null days_to_first_repeat.
C10_OneRecordPerNewCustomer ==
    pc = "analyzed" =>
        /\ Len(repeat_data) = Len(new_customers)
        /\ \A k \in 1..Len(new_customers) :
              /\ repeat_data[k].id = new_customers[k].id
              /\ repeat_data[k].first_visit = new_customers[k].date
              /\ QualifyingRepeats(new_customers[k].id, new_customers[k].date) = {}
                 => /\ repeat_data[k].repeat_count = 0
                    /\ repeat_data[k].repeat_dates = <<>>
                    /\ repeat_data[k].days_to_first_repeat = NaT

\* one new customer has a repeat and another has none
C10_Witness ==
    /\ pc = "analyzed"
    /\ Len(new_customers) = 2
    /\ \E k, m \in 1..Len(repeat_data) :
          /\ repeat_data[k].repeat_count = 0
          /\ repeat_data[m].repeat_count >= 1

----------------------------------------------------------------------------
(* Properties of the result of analyze_repeat_customers, checked under Spec *)

ViewNames ==
    {"basic_stats", "funnel_analysis", "stylist_analysis", "coupon_analysis",
     "target_comparison", "period_analysis", "monthly_analysis"}

IsDate(text) == text # None /\ to_datetime(text) # NaT

\* a call was made whose three date parameters are dates, the window start not after
\* the window end
OrderedDates ==
    /\ pc \in {"analyzed", "analysis_failed"}
    /\ IsDate(params.new_customer_start)
    /\ IsDate(params.new_customer_end)
    /\ IsDate(params.repeat_analysis_end)
    /\ window_start <= window_end

\* some row of the table qualifies its customer as new in the window: it is dated in
\* the window on the customer's earliest date, with a flag that is true or unknown
SomeoneQualifies ==
    \E i \in Rows :
        /\ table[i].date >= window_start /\ table[i].date <= window_end
        /\ table[i].flag \in {"True", "None"}
        /\ \A j \in Rows : table[j].id = table[i].id => table[j].date >= table[i].date

EchoesInputs(parameters) ==
    /\ parameters.new_customer_start = params.new_customer_start
    /\ parameters.new_customer_end = params.new_customer_end
    /\ parameters.repeat_analysis_end = params.repeat_analysis_end
    /\ parameters.min_repeat_count = params.min_repeat_count
    /\ parameters.min_stylist_customers = params.min_stylist_customers
    /\ parameters.min_coupon_customers = params.min_coupon_customers
    /\ parameters.target_rates = params.target_rates

\* C11: when no customer qualifies as new in the window, analyze_repeat_customers
\* raises nothing and returns a result whose seven views are all empty and whose
\* parameters echo the inputs and carry the 'error' marker; a result carries the
\* marker if and only if the cohort is empty.
C11_EmptyCohortResult ==
    /\ (OrderedDates /\ ~SomeoneQualifies) =>
          /\ pc = "analyzed"
          /\ \A v \in ViewNames : DOMAIN results[v] = {}
          /\ EchoesInputs(results.parameters)
          /\ "error" \in DOMAIN results.parameters
    /\ pc = "analyzed" =>
          (("error" \in DOMAIN results.parameters) <=> ~SomeoneQualifies)

\* a call on a table with visits, none of which qualifies a customer, returned the
\* empty result with the marker
C11_Witness ==
    /\ pc = "analyzed"
    /\ table # <<>>
    /\ ~SomeoneQualifies
    /\ "error" \in DOMAIN results.parameters
    /\ DOMAIN results.basic_stats = {}

----------------------------------------------------------------------------
(* Properties of the analytic views as functions of the frame, checked under  *)
(* SpecViews                                                                  *)

Zero == <<0>>

----------------------------------------------------------------------------
(* Properties of the numbers of a result, checked under Spec *)

\* a float field that holds a number: not NaN
IsNumber(x) == x # nan

\* a percentage in [0, 100], in tenths
IsPercentage(x) == IsNumber(x) /\ x[1] >= 0 /\ x[1] <= 1000

IsNonNegative(x) == IsNumber(x) /\ x[1] >= 0

HasCohort == pc = "analyzed" /\ new_customers # <<>>

\* C13: in every result of analyze_repeat_customers each percentage field (the rates
\* of basic_stats, the stage, continuation and cumulative rates of the funnel, the
\* per-stylist and per-coupon rates, actual_rates, the period-band percentages, the
\* monthly repeat_rate) lies in [0, 100]; achievement rates are never negative; no
\* float field is NaN.
C13_RateBounds ==
    HasCohort =>
        LET basic == results.basic_stats
            funnel == results.funnel_analysis
            stylist == results.stylist_analysis
            coupon == results.coupon_analysis
            target == results.target_comparison
            period == results.period_analysis
            monthly == results.monthly_analysis
        IN  /\ IsPercentage(basic.x_plus_rate)
            /\ IsPercentage(basic.first_repeat_rate)
            /\ IsNonNegative(basic.avg_repeat_all)
            /\ IsNonNegative(basic.avg_repeat_repeaters)
            /\ \A i \in 1..5 : IsPercentage(funnel.stage_rates[i])
            /\ \A i \in 2..5 : IsPercentage(funnel.continuation_rates[i])
            /\ \A c \in DOMAIN funnel.cumulative_percentages :
                  IsPercentage(funnel.cumulative_percentages[c])
            /\ \A k \in 1..Len(stylist.stylist_stats) :
                  /\ IsPercentage(stylist.stylist_stats[k].x_plus_rate)
                  /\ IsPercentage(stylist.stylist_stats[k].first_repeat_rate)
                  /\ IsNonNegative(stylist.stylist_stats[k].avg_repeat)
            /\ IsPercentage(stylist.top_stylist.rate)
            /\ \A k \in 1..Len(coupon.coupon_stats) :
                  /\ IsPercentage(coupon.coupon_stats[k].x_plus_rate)
                  /\ IsPercentage(coupon.coupon_stats[k].first_repeat_rate)
                  /\ IsNonNegative(coupon.coupon_stats[k].avg_repeat_repeaters)
            /\ IsPercentage(coupon.best_coupon.rate)
            /\ IsNonNegative(coupon.best_coupon.avg_repeat)
            /\ \A st \in Stages :
                  /\ IsPercentage(target.actual_rates[st])
                  /\ IsNonNegative(target.achievement_rates[st])
            /\ IsNonNegative(target.overall_achievement)
            /\ IsNonNegative(period.avg_days)
            /\ IsNonNegative(period.median_days)
            /\ \A k \in 1..Len(period.period_distribution) :
                  IsPercentage(period.period_distribution[k].percentage)
            /\ \A mo \in DOMAIN monthly.monthly_repeat_rates :
                  IsPercentage(monthly.monthly_repeat_rates[mo].repeat_rate)

\* a result for two new customers of whom one came back: half of the cohort
\* repeats, and the achievement against the 35 % target exceeds 100
C13_Witness ==
    /\ HasCohort
    /\ Len(repeat_data) = 2
    /\ results.basic_stats.first_repeat_rate = <<500>>
    /\ results.target_comparison.achievement_rates["first_repeat"][1] > 1000
    /\ Len(results.stylist_analysis.stylist_stats) = 2

----------------------------------------------------------------------------
(* Properties of the validation of analyze_repeat_customers, checked under Spec *)

Called == pc \in {"analyzed", "analysis_failed"}

\* the call raised: it returned no result, extracted no cohort and computed no view
RaisedOnly(exception) ==
    /\ pc = "analysis_failed"
    /\ results.raised = exception
    /\ new_customers = <<>>
    /\ repeat_data = <<>>

\* C14: analyze_repeat_customers called with a window start later than the window
\* end fails with a validation error before any cohort extraction or view
\* computation, and returns no result.
C14_StartAfterEndRejected ==
    (/\ Called
     /\ IsDate(params.new_customer_start)
     /\ IsDate(params.new_customer_end)
     /\ window_start > window_end)
    => RaisedOnly("ValueError")

\* a call with the window 2024-02-10 .. 2024-01-15 on a table that holds a visit
\* between the two dates was rejected at the ordering check
C14_Witness ==
    /\ pc = "analysis_failed"
    /\ results.at = "start_after_end"
    /\ results.raised = "ValueError"
    /\ window_start > window_end
    /\ \E i \in Rows : table[i].date >= window_end /\ table[i].date <= window_start

\* C15: analyze_repeat_customers called with a window end later than the repeat
\* cutoff aborts the run with an input error and produces no analysis result.
C15_EndAfterCutoffRejected ==
    (/\ Called
     /\ IsDate(params.new_customer_start)
     /\ IsDate(params.new_customer_end)
     /\ IsDate(params.repeat_analysis_end)
     /\ window_end > cutoff)
    => RaisedOnly("ValueError")

----------------------------------------------------------------------------
(* Properties of the validation, checked under SpecSession: the export has one of *)
(* the headers and the table is analysed again and again                          *)

ListedColumns ==
    {"customer_id", "visit_date", "status", "stylist", "coupon", "amount", "gender", "menu"}

\* the call raised and returned nothing: no cohort, no repeat data, no view
NothingProduced ==
    /\ pc = "analysis_failed"
    /\ new_customers = <<>>
    /\ repeat_data = <<>>
    /\ DOMAIN results = {"raised", "at"}

C17_NonDateParameterRejected ==
    (/\ Called
     /\ ~(/\ IsDate(params.new_customer_start)
          /\ IsDate(params.new_customer_end)
          /\ IsDate(params.repeat_analysis_end)))
    => /\ NothingProduced
       /\ results.raised \in {"ValueError", "TypeError"}

----------------------------------------------------------------------------
(* Properties of load_and_combine_csv_files, checked under SpecLoad *)

Loaded == pc \in {"loaded", "load_failed"}

\* the encodings a file may be read with
Candidates(k) == {"utf-8-sig", disk[k].detected, "cp932", "shift_jis", "utf-8"} \ {"None"}

\* file k can be parsed: it can be opened and at least one candidate decodes it
CanBeParsed(k) == disk[k].exists /\ Candidates(k) \cap disk[k].decodes # {}

\* the lines of the files that can be parsed, each named by its rid
ParsedLines ==
    UNION {{<<k, i>> : i \in 1..Len(files[k])} : k \in {j \in 1..Len(files) : CanBeParsed(j)}}

\* those of them whose visit date parses
DatedLines == {l \in ParsedLines : parse_date(files[l[1]][l[2]].date) # NaT}

RidsOf(lines) == {files[l[1]][l[2]].rid : l \in lines}

TableRids == {table[i].rid : i \in 1..Len(table)}

\* C18: the table load_and_combine_csv_files returns holds exactly the input rows
\* with a parseable visit date and the completed status: a row with an unparseable
\* date is dropped without an error, a row with any other status is dropped.
C18_OnlyCompletedDatedRows ==
    pc = "loaded" =>
        TableRids = RidsOf({l \in DatedLines : files[l[1]][l[2]].status = "sumi"})

\* the statement of C19 as given: the load succeeds whenever at least one file can
\* be parsed, with the rows of every parsed file (those the cleansing keeps) in the
\* result, and fails when none can
C19_SucceedsIfAnyFileParses ==
    Loaded =>
        /\ (pc = "loaded") <=> (\E k \in 1..Len(files) : CanBeParsed(k))
        /\ pc = "loaded" => TableRids = RidsOf(DatedLines)

\* C19: load_and_combine_csv_files succeeds whenever at least one file can be parsed
\* and holds at least one data row: a file that fails under every candidate encoding
\* or raises while loading is skipped without aborting the run, and so is a parsed
\* file with no data row; the rows of every parsed file that carry a parseable visit
\* date are in the result; when no file yields a row the call fails with an error.
C19_SucceedsIfAnyFileHasRows ==
    Loaded =>
        /\ (pc = "loaded") <=> (\E k \in 1..Len(files) : CanBeParsed(k) /\ Len(files[k]) > 0)
        /\ pc = "loaded" => TableRids = RidsOf(DatedLines)
        /\ pc = "load_failed" => table = <<>>

\* an upload of a file that no encoding decodes and a Shift_JIS file with a visit:
\* the load succeeded with the visit of the second file
C19_Witness ==
    /\ pc = "loaded"
    /\ Len(files) = 2
    /\ disk[1] = UndecodableFile /\ Len(files[1]) > 0
    /\ disk[2] = SjisFile
    /\ TableRids = {21}

----------------------------------------------------------------------------
(* Frame condition of analyze_repeat_customers, checked under SpecSession *)

\* the table as load_and_combine_csv_files built it from the files
FreshTable == combine_and_process(files, disk)

\* what a first call with parameters p returns on a table df with columns cols
FirstCallResult(df, cols, p) ==
    IF raised(cols, df, p) # <<>>
    THEN [raised |-> raised(cols, df, p)[1], at |-> raised(cols, df, p)[2]]
    ELSE IF new_customers_of(df, p) = <<>> THEN empty_analysis_results(p)
    ELSE analysis_results(new_customers_of(df, p),
                          repeat_data_of(df, new_customers_of(df, p), p), p)

\* one analyze_repeat_customers call of the session
C20_Call ==
    pc \in {"loaded", "analyzed", "analysis_failed"} =>
    /\ table' = table
    /\ columns' = columns
    /\ table' = FreshTable
    /\ results' = FirstCallResult(FreshTable, columns, params')

----------------------------------------------------------------------------
(* Missing optional columns, checked under SpecSession *)

\* the columns of the export an input may leave out
OptionalColumns == {"status", "stylist", "coupon", "amount", "gender", "menu"}

\* the export lacked optional columns only, and at least one of them
LacksOptionalOnly ==
    /\ (FullHeader \ OptionalColumns) \subseteq columns
    /\ ~(OptionalColumns \subseteq columns)

\* C21: an input that lacks an optional column (status, stylist, coupon, total
\* amount, gender or menu) degrades gracefully: loading succeeds and the
\* analyze_repeat_customers call on the loaded table, made with valid parameters,
\* completes without raising and produces the views that do not depend on the
\* missing column.
C21_OptionalColumnDegrades ==
    LacksOptionalOnly =>
        /\ pc # "load_failed"
        /\ (/\ Called
            /\ IsDate(params.new_customer_start)
            /\ IsDate(params.new_customer_end)
            /\ IsDate(params.repeat_analysis_end)
            /\ window_start <= window_end)
           => /\ pc = "analyzed"
              /\ "basic_stats" \in DOMAIN results
              /\ "funnel_analysis" \in DOMAIN results

----------------------------------------------------------------------------
(* Properties of _compare_with_targets, checked under SpecViews *)

\* the customers of the frame with at least k repeat visits
AtLeast(k) ==
    Cardinality({i \in 1..Len(repeat_data) : repeat_data[i].repeat_count >= k})

\* numerator and denominator of the rate of a stage
StageCounts ==
    [first_repeat |-> <<AtLeast(1), Len(repeat_data)>>,
     second_repeat |-> <<AtLeast(2), AtLeast(1)>>,
     third_repeat |-> <<AtLeast(3), AtLeast(2)>>]

\* actual / target x 100 of a stage as a fraction, 0 on a target of 0 (and on a
\* stage nobody reached)
Achievement(st) ==
    IF params.target_rates[st] = 0 \/ StageCounts[st][2] = 0 THEN <<0, 1>>
    ELSE Ratio(StageCounts[st][1] * 10000, StageCounts[st][2] * params.target_rates[st])

\* the sum of two fractions
Plus(x, y) == Ratio(x[1] * y[2] + y[1] * x[2], x[2] * y[2])

\* a fraction to one decimal, in tenths
Tenths(x) == <<round_half_even(10 * x[1], x[2])>>

\* C22: in _compare_with_targets, for each of the three stages (first-repeat rate =
\* customers with >= 1 repeat / total, second-repeat = >= 2 / >= 1, third-repeat =
\* >= 3 / >= 2) the achievement rate equals actual / target x 100, is 0 when the
\* target is 0, and may exceed 100; overall_achievement equals the mean of the
\* three stage achievement rates.
C22_AchievementRates ==
    pc = "viewed" =>
        LET target == results.target_comparison
            sum == Plus(Plus(Achievement("first_repeat"), Achievement("second_repeat")),
                        Achievement("third_repeat"))
        IN  /\ \A st \in Stages :
                  /\ target.achievement_rates[st] = Tenths(Achievement(st))
                  /\ params.target_rates[st] = 0 => target.achievement_rates[st] = <<0>>
                  /\ StageCounts[st][2] > 0 =>
                        target.actual_rates[st] =
                            Tenths(<<100 * StageCounts[st][1], StageCounts[st][2]>>)
            /\ target.overall_achievement = Tenths(<<sum[1], 3 * sum[2]>>)

\* of two customers one came back, twice: the first stage stands at 50 against a
\* target of 35 (achievement 142.9), the second at 100 against 45 (222.2), the
\* third at 0
C22_Witness ==
    /\ pc = "viewed"
    /\ Len(repeat_data) = 2
    /\ AtLeast(1) = 1 /\ AtLeast(2) = 1 /\ AtLeast(3) = 0
    /\ params.target_rates = TARGET_RATES
    /\ results.target_comparison.achievement_rates["first_repeat"] = <<1429>>
    /\ results.target_comparison.achievement_rates["second_repeat"] = <<2222>>
    /\ results.target_comparison.overall_achievement = <<1217>>

----------------------------------------------------------------------------
(* Properties of _analyze_by_stylist, checked under SpecViews *)

\* the stylist group of the i-th customer of the frame: customers with a missing or
\* empty stylist form the group Unknown
StylistGroup(i) ==
    IF repeat_data[i].stylist = NaN \/ repeat_data[i].stylist = <<>>
    THEN Unknown ELSE repeat_data[i].stylist

\* the customers of a stylist group
GroupMembers(n) == {i \in 1..Len(repeat_data) : StylistGroup(i) = n}

\* the groups with at least minStylistCustomers customers
QualifyingGroups ==
    {n \in {StylistGroup(i) : i \in 1..Len(repeat_data)} :
        Cardinality(GroupMembers(n)) >= params.min_stylist_customers}

\* C23: the stylist view lists exactly the stylist groups that have at least
\* minStylistCustomers new customers (customers with a missing or empty stylist form
\* one 'unknown' group), ordered by non-increasing threshold-repeat rate; top_stylist
\* is the first entry of that list, or the 'not applicable' sentinel with rate 0 when
\* the list is empty; total_x_plus_repeaters counts the threshold-repeaters of the
\* whole customer set, including customers of dropped groups.
C23_StylistView ==
    pc = "viewed" =>
        LET view == results.stylist_analysis
            stats == view.stylist_stats
        IN  /\ {stats[k].stylist_name : k \in 1..Len(stats)} = QualifyingGroups
            /\ Len(stats) = Cardinality(QualifyingGroups)
            /\ \A k \in 1..Len(stats) :
                  /\ stats[k].total_customers = Cardinality(GroupMembers(stats[k].stylist_name))
                  /\ stats[k].x_plus_repeaters =
                        Cardinality({i \in GroupMembers(stats[k].stylist_name) :
                                        repeat_data[i].repeat_count >= params.min_repeat_count})
            /\ \A k \in 1..Len(stats) - 1 :
                  stats[k].x_plus_rate[1] >= stats[k + 1].x_plus_rate[1]
            /\ IF stats = <<>>
               THEN view.top_stylist = [name |-> NotApplicable, rate |-> <<0>>]
               ELSE view.top_stylist =
                       [name |-> stats[1].stylist_name, rate |-> stats[1].x_plus_rate]
            /\ view.total_x_plus_repeaters = AtLeast(params.min_repeat_count)

\* two customers of two stylists under a minimum of 2: both groups are dropped, the
\* list is empty and the top stylist is the sentinel, yet the threshold-repeater of a
\* dropped group is counted
C23_Witness ==
    /\ pc = "viewed"
    /\ params.min_stylist_customers = 2
    /\ Len(repeat_data) = 2
    /\ StylistGroup(1) # StylistGroup(2)
    /\ results.stylist_analysis.stylist_stats = <<>>
    /\ results.stylist_analysis.top_stylist.name = NotApplicable
    /\ results.stylist_analysis.total_x_plus_repeaters = 1

----------------------------------------------------------------------------
(* The record get_new_customers keeps of a customer, checked under SpecCohort *)

\* the rows of the table of a customer dated on the customer's earliest date
FirstDayRows(id) ==
    {i \in 1..Len(table) :
        /\ table[i].id = id
        /\ \A j \in 1..Len(table) : table[j].id = id => table[i].date <= table[j].date}

\* those of them whose first-visit flag is true or blank
FlaggedFirstDayRows(id) == {i \in FirstDayRows(id) : table[i].flag \in {"True", "None"}}

\* the smallest of a set of positions
FirstOf(S) == CHOOSE i \in S : \A j \in S : i <= j

\* no two records of the cohort are of the same customer
OneRecordPerId ==
    \A k, l \in 1..Len(new_customers) :
        new_customers[k].id = new_customers[l].id => k = l

\* the statement of C24 as given: at most one record per customer id, and of several
\* rows on the customer's global first-visit date the record returned is the one
\* that comes first in the table
C24_FirstRowOfFirstDay ==
    pc = "analyzed" =>
        /\ OneRecordPerId
        /\ \A k \in 1..Len(new_customers) :
              Cardinality(FirstDayRows(new_customers[k].id)) > 1 =>
                 new_customers[k].rid = table[FirstOf(FirstDayRows(new_customers[k].id))].rid

\* C24: get_new_customers returns at most one record per customer id, and when a
\* customer has several rows dated exactly on their global first-visit date, the
\* returned record is the first, in the input order of the table, of those of
\* these rows whose first-visit flag is true or blank (its stylist, coupon and
\* other attributes become the customer's cohort attributes).
C24_FirstFlaggedRowOfFirstDay ==
    pc = "analyzed" =>
        /\ OneRecordPerId
        /\ \A k \in 1..Len(new_customers) :
              LET first == FirstOf(FlaggedFirstDayRows(new_customers[k].id))
              IN  /\ FlaggedFirstDayRows(new_customers[k].id) # {}
                  /\ new_customers[k].rid = table[first].rid
                  /\ new_customers[k].stylist = table[first].stylist
                  /\ new_customers[k].coupon = table[first].coupon

\* a customer with three rows on the first day: the first answers "no" to the
\* first-visit question, the record kept is the second, with its stylist
C24_Witness ==
    /\ pc = "analyzed"
    /\ Len(table) = 3
    /\ FirstDayRows(table[1].id) = {1, 2, 3}
    /\ table[1].flag = "False"
    /\ table[2].flag = "True" /\ table[3].flag = "True"
    /\ table[2].stylist # table[1].stylist /\ table[2].stylist # table[3].stylist
    /\ Len(new_customers) = 1
    /\ new_customers[1].rid = table[2].rid
    /\ new_customers[1].stylist = table[2].stylist

----------------------------------------------------------------------------
(* The encoding _load_single_csv reads a file with, checked under SpecEncoding *)

\* the call of _load_single_csv has returned
SingleFileDone == pc \in {"single_file_read", "single_file_failed"}

\* the first candidate of a list that is not None and decodes the file, "None" when
\* there is none
Winner(candidates) ==
    LET ok == {i \in 1..Len(candidates) :
                  candidates[i] # "None" /\ candidates[i] \in disk[1].decodes}
    IN  IF ok = {} THEN "None" ELSE candidates[CHOOSE i \in ok : \A j \in ok : i <= j]

\* the candidates of a list that are not None, without repetition
Named(candidates) == {candidates[i] : i \in 1..Len(candidates)} \ {"None"}

\* the call tried the candidates of the list in order and took the first that reads
\* the file, failing only when every candidate failed
TriedInOrder(candidates) ==
    /\ results.encoding = Winner(candidates)
    /\ (pc = "single_file_failed") <=> (Winner(candidates) = "None")
    /\ pc = "single_file_failed" =>
          /\ results.df = <<>>
          /\ {results.tried[i] : i \in 1..Len(results.tried)} = Named(candidates)
    /\ pc = "single_file_read" => results.df = <<files[1]>>
    /\ \A i, j \in 1..Len(results.tried) : results.tried[i] = results.tried[j] => i = j

\* the statement of C25 as given: the candidates are tried in the order configured
\* default, sniffed encoding, cp932, shift_jis, utf-8-sig, utf-8
C25_SniffedBeforeUtf8Sig ==
    SingleFileDone =>
        TriedInOrder(<<params.default_encoding, disk[1].detected,
                       "cp932", "shift_jis", "utf-8-sig", "utf-8">>)

\* C25: _load_single_csv tries the encoding candidates in the order [configured
\* default (if any), utf-8-sig, sniffed encoding, cp932, shift_jis, utf-8], with
\* duplicates removed keeping the first position and nulls skipped, and returns the
\* table parsed with the first candidate in that order that reads the whole file
\* without a decode error; it reports failure only after every candidate has failed.
C25_Utf8SigBeforeSniffed ==
    SingleFileDone =>
        TriedInOrder(<<params.default_encoding, "utf-8-sig", disk[1].detected,
                       "cp932", "shift_jis", "utf-8">>)

\* a UTF-8 file that chardet took for ISO-8859-1, read by a DataProcessor without a
\* default: it is read as utf-8-sig, not with the sniffed encoding
C25_Witness ==
    /\ pc = "single_file_read"
    /\ params.default_encoding = "None"
    /\ disk[1].detected = "ISO-8859-1"
    /\ disk[1].decodes = {"utf-8", "utf-8-sig", "UTF-8-SIG", "ISO-8859-1"}
    /\ results.encoding = "utf-8-sig"
    /\ results.tried = <<"utf-8-sig">>

----------------------------------------------------------------------------
(* Properties of _analyze_repeat_periods, checked under SpecPeriods *)

\* the customers of the frame with a days_to_first_repeat
WithDays == {i \in 1..Len(repeat_data) : repeat_data[i].days_to_first_repeat # NaT}

\* the bands in their fixed order, each with the days it excludes below and includes
\* above (the last band has no upper edge)
Bands ==
    <<[name |-> 7, above |-> -1, upto |-> 7], [name |-> 14, above |-> 7, upto |-> 14],
      [name |-> 30, above |-> 14, upto |-> 30], [name |-> 60, above |-> 30, upto |-> 60],
      [name |-> 90, above |-> 60, upto |-> 90], [name |-> 0, above |-> 90, upto |-> 100000]>>

\* the customers of a band
InBand(b) ==
    {i \in WithDays : /\ repeat_data[i].days_to_first_repeat[1] > Bands[b].above
                      /\ repeat_data[i].days_to_first_repeat[1] <= Bands[b].upto}

\* the number the reported bands' counts add up to
RECURSIVE SumOfCounts(_)
SumOfCounts(dist) == IF dist = <<>> THEN 0 ELSE Head(dist).count + SumOfCounts(Tail(dist))

\* C26: _analyze_repeat_periods places every customer with a non-null
\* days_to_first_repeat d in exactly one band by the edges d <= 7, else d <= 14, else
\* d <= 30, else d <= 60, else d <= 90, else > 90; the reported bands appear in that
\* fixed order, each with its count and its percentage of those customers, and the
\* band counts sum to the number of customers with a non-null days_to_first_repeat.
C26_PeriodBands ==
    pc = "viewed" =>
        LET dist == results.period_analysis.period_distribution
            place(k) == CHOOSE b \in 1..Len(Bands) : Bands[b].name = dist[k].category
        IN  /\ \A i \in WithDays : Cardinality({b \in 1..Len(Bands) : i \in InBand(b)}) = 1
            /\ {dist[k].category : k \in 1..Len(dist)} =
                  {Bands[b].name : b \in {c \in 1..Len(Bands) : InBand(c) # {}}}
            /\ \A k \in 1..Len(dist) - 1 : place(k) < place(k + 1)
            /\ \A k \in 1..Len(dist) :
                  /\ dist[k].count = Cardinality(InBand(place(k)))
                  /\ dist[k].percentage =
                        Tenths(<<100 * dist[k].count, Cardinality(WithDays)>>)
            /\ SumOfCounts(dist) = Cardinality(WithDays)

\* the first customer came back after 91 days, the second after exactly 7: the band
\* up to a week is reported before the band above three months, each with one
\* customer and 50 %
C26_Witness ==
    /\ pc = "viewed"
    /\ Len(repeat_data) = 2
    /\ repeat_data[1].days_to_first_repeat = <<91>>
    /\ repeat_data[2].days_to_first_repeat = <<7>>
    /\ results.period_analysis.period_distribution =
          <<[category |-> 7, count |-> 1, percentage |-> <<500>>],
            [category |-> 0, count |-> 1, percentage |-> <<500>>]>>

----------------------------------------------------------------------------
(* Agreement of the views of one result, checked under SpecSession *)

\* the sum of the values of a function with numbers as values
RECURSIVE SumOver(_, _)
SumOver(f, S) ==
    IF S = {} THEN 0
    ELSE LET x == CHOOSE x \in S : TRUE IN f[x] + SumOver(f, S \ {x})

\* C27: within one non-empty result of analyze_repeat_customers the views agree on
\* shared counts: basic_stats.total_new_customers = funnel stage of the first visit
\* = the sum of monthly_new_customers over all months; basic_stats.first_repeaters =
\* funnel stage of the second visit = the current_count of the first_repeat target =
\* the sum of the period-band counts; stylist_analysis.total_x_plus_repeaters =
\* basic_stats.x_plus_repeaters; and the funnel stage counts never increase from one
\* stage to the next.
C27_ViewsAgree ==
    HasCohort =>
        LET basic == results.basic_stats
            stages == results.funnel_analysis.stages
            monthly == results.monthly_analysis.monthly_new_customers
        IN  /\ basic.total_new_customers = stages[1]
            /\ basic.total_new_customers = SumOver(monthly, DOMAIN monthly)
            /\ basic.first_repeaters = stages[2]
            /\ basic.first_repeaters =
                  results.target_comparison.required_additional["first_repeat"].current_count
            /\ basic.first_repeaters =
                  SumOfCounts(results.period_analysis.period_distribution)
            /\ results.stylist_analysis.total_x_plus_repeaters = basic.x_plus_repeaters
            /\ \A i \in 1..4 : stages[i] >= stages[i + 1]

\* a result for a cohort of one customer who came back once
C27_Witness ==
    /\ HasCohort
    /\ results.basic_stats.total_new_customers = 1
    /\ results.basic_stats.first_repeaters = 1
    /\ results.funnel_analysis.stages = <<1, 1, 0, 0, 0>>
    /\ SumOfCounts(results.period_analysis.period_distribution) = 1

----------------------------------------------------------------------------
(* The web session: what the dashboard and the report show *)

\* the last response of session s is the dashboard or the report with results in it
Rendered(s) == web.response[s].body \in {"dashboard.html", "report.txt"}

\* C28: in one session, the dashboard and the report render analysis results only
\* when an analyze request has succeeded after the most recent successful upload and
\* the most recent visit of the index page, and what they render is the result of
\* that request on the table of that upload; whenever analysis_performed is true,
\* analysis_results and analysis_parameters are in the session
C28_RenderOnlyAfterAnalyze ==
    \A s \in DOMAIN web.session :
        /\ Rendered(s) =>
              /\ web.history[s].uploaded # <<>>
              /\ web.history[s].analysed # <<>>
              /\ web.session[s]["analysis_results"] =
                     analysis_of(web.history[s].uploaded[1], web.history[s].analysed[1])
              /\ web.session[s]["analysis_parameters"] = web.history[s].analysed[1]
        /\ analysis_performed(web.session[s]) => analysis_in_session(web.session[s])

\* the dashboard is rendered after a second upload of the session was analysed
C28_Witness ==
    /\ web.made >= 2
    /\ web.response[1].body = "dashboard.html"
    /\ Len(web.history[1].uploaded[1]) = 2
    /\ web.session[1]["analysis_results"].basic_stats # <<>>

----------------------------------------------------------------------------
(* The web session: an upload request that fails *)

\* C29: an upload request that fails leaves the session as it was, the
\* processed-data file of the earlier successful upload included, so that a following
\* analyze request can run on it: between the requests of a session, the file its
\* processed_data_path names exists
C29_RecordedFileExists ==
    \A s \in DOMAIN web.session :
        Idle(s) /\ "processed_data_path" \in DOMAIN web.session[s]
            => web.session[s]["processed_data_path"] \in DOMAIN web.processed

----------------------------------------------------------------------------
(* The web sessions: uploads at the same time *)

\* the session whose export a row of a table comes from
UploaderOf(row) == row.rid \div 10

\* C30: when sessions upload at the same time, also files of the same name, the
\* processed data of each session is built from the files that session uploaded
\* only: no row of its table comes from the export of another session
C30_TablesNeverMix ==
    \A s \in DOMAIN web.session :
        /\ "processed_data_path" \in DOMAIN web.session[s]
        /\ web.session[s]["processed_data_path"] \in DOMAIN web.processed
        => LET raw_data == web.processed[web.session[s]["processed_data_path"]]
           IN  \A i \in 1..Len(raw_data) : UploaderOf(raw_data[i]) = s

====
